---- MODULE Spec2Model ----
(***************************************************************************)
(* Model of tagged_urn.py: the TaggedUrn parser (from_string), the         *)
(* canonical serializer (to_string), the TaggedUrnBuilder and the matching *)
(* engine (conforms_to / accepts / is_compatible_with / specificity).      *)
(*                                                                         *)
(* A Python str is a sequence of one-character strings; a tags dict is a   *)
(* function from keys to values; None is the value NoneVal.                *)
(***************************************************************************)
EXTENDS Integers, Sequences, FiniteSets, TLC

VARIABLES
    text,      \* the str handed to from_string
    pc,        \* position of the construction session
    urn,       \* outcome of the construction (from_string, build, with_tag)
    canon,     \* to_string(urn)
    reparsed,  \* outcome of from_string(canon)
    builder,   \* the TaggedUrnBuilder: prefix and tags
    berr,      \* exception raised by the last builder / with_tag call
    nops,      \* number of builder / with_tag calls made
    a, b,      \* the two TaggedUrn operands of the matching engine
    op,        \* the matching operation called last
    out,       \* its outcome
    urns,      \* the candidates handed to UrnMatcher (urns1 of are_compatible)
    urns2,     \* the second collection of are_compatible
    parser,    \* the locals of from_string's loop, iteration by iteration
    heap,      \* the TaggedUrn objects created so far, by reference
    call       \* the method called last on an object of the heap

vars ==
    <<text, pc, urn, canon, reparsed, builder, berr, nops, a, b, op, out,
      urns, urns2, parser, heap, call>>
buildVars == <<text, pc, urn, canon, reparsed, builder, berr, nops>>
matchVars == <<a, b, op, out>>
extraVars == <<urns, urns2, parser, heap, call>>

-----------------------------------------------------------------------------
(* Bounds of the model.                                                    *)

\* longest tag body drawn over the whole alphabet
MaxBody == 4
\* longest content of the quoted value of the texts  C:a="..."
MaxQuoted == 2
\* longest text drawn without a given prefix
MaxRaw == 3
\* most builder / with_tag calls of one session
MaxOps == 2
\* number of tag keys of the matching engine's operands
MaxKeys == 2

-----------------------------------------------------------------------------
(* Characters: str methods on one-character strings.                       *)

LowerLetters == {"a", "b", "c", "x", "y"}
UpperLetters == {"A", "C"}
Digits == {"1"}
Whitespace == {" "}

\* the characters texts are drawn from
Alphabet == {"a", "A", "1", ";", "=", "\"", "\\", " ", ",", "*", "?", "!", ":"}

isalnum(c) == c \in LowerLetters \cup UpperLetters \cup Digits
isupper(c) == c \in UpperLetters
isdigit(c) == c \in Digits
isspace(c) == c \in Whitespace

\* letters left in the case they were written in
keep_case(c) == c

\* c.lower()
lower(c) ==
    CASE c = "A" -> "a"
      [] c = "C" -> "c"
      [] OTHER -> c

\* s.lower()
LowerStr(s) == [i \in 1..Len(s) |-> lower(s[i])]

\* ord(c): the code point, which orders str values
Ord(c) ==
    CASE c = " " -> 32 [] c = "!" -> 33 [] c = "\"" -> 34 [] c = "*" -> 42
      [] c = "," -> 44 [] c = "1" -> 49 [] c = ":" -> 58 [] c = ";" -> 59
      [] c = "=" -> 61 [] c = "?" -> 63 [] c = "A" -> 65 [] c = "C" -> 67
      [] c = "\\" -> 92 [] c = "a" -> 97 [] c = "b" -> 98 [] c = "c" -> 99
      [] c = "x" -> 120 [] c = "y" -> 121

\* s < t for two str values (lexicographic by code point)
RECURSIVE StrLess(_, _)
StrLess(s, t) ==
    IF t = <<>> THEN FALSE
    ELSE IF s = <<>> THEN TRUE
    ELSE IF s[1] # t[1] THEN Ord(s[1]) < Ord(t[1])
    ELSE StrLess(Tail(s), Tail(t))

\* s.strip(): leading and trailing whitespace removed
RECURSIVE lstrip(_)
lstrip(s) == IF s # <<>> /\ isspace(s[1]) THEN lstrip(Tail(s)) ELSE s

RECURSIVE rstrip(_)
rstrip(s) ==
    IF s # <<>> /\ isspace(s[Len(s)]) THEN rstrip(SubSeq(s, 1, Len(s) - 1)) ELSE s

strip(s) == rstrip(lstrip(s))

\* s.find(c): the 0-based index of the first c, or -1
RECURSIVE FindFrom(_, _, _)
FindFrom(s, c, i) ==
    IF i > Len(s) THEN -1
    ELSE IF s[i] = c THEN i - 1
    ELSE FindFrom(s, c, i + 1)

find(s, c) == FindFrom(s, c, 1)

\* all sequences over S of length at most n
BoundedSeq(S, n) == UNION {[1..k -> S] : k \in 0..n}

-----------------------------------------------------------------------------
(* Values.                                                                 *)

\* Python's None (what dict.get returns for a missing key)
NoneVal == <<"None">>

EmptyTags == <<>>

\* tags[key] = value on a dict
SetTag(tags, key, value) ==
    [k \in DOMAIN tags \cup {key} |-> IF k = key THEN value ELSE tags[k]]

\* tags.get(key)
GetTag(tags, key) == IF key \in DOMAIN tags THEN tags[key] ELSE NoneVal

\* TaggedUrn.__init__: prefix and keys are lowercased.  Every caller in the
\* module passes keys that are already lowercase, so no two keys collide.
TaggedUrn(prefix, tags) ==
    [prefix |-> LowerStr(prefix),
     tags |-> [k \in {LowerStr(j) : j \in DOMAIN tags} |->
                  tags[CHOOSE j \in DOMAIN tags : LowerStr(j) = k]]]

NoUrn == [prefix |-> <<>>, tags |-> EmptyTags]

\* a call that returned u / a call that raised the exception e
Ok(u) == [ok |-> TRUE, urn |-> u, err |-> "none"]
Raise(e) == [ok |-> FALSE, urn |-> NoUrn, err |-> e]
NoResult == [ok |-> FALSE, urn |-> NoUrn, err |-> "not called"]

\* a method call on the object self: its name and its arguments
Call(name, self, other, key, value, keys) ==
    [name |-> name, self |-> self, other |-> other, key |-> key,
     value |-> value, keys |-> keys]
NoCall == Call("none", 0, 0, <<>>, <<>>, <<>>)

-----------------------------------------------------------------------------
(* The parser: TaggedUrn.from_string.                                      *)

_is_valid_key_char(c) == isalnum(c) \/ c \in {"_", "-", "/", ":", "."}

\* the value characters without "*", "?" and "!"
_is_valid_unquoted_value_char_no_marks(c) == _is_valid_key_char(c)

_is_valid_unquoted_value_char(c) ==
    isalnum(c) \/ c \in {"_", "-", "/", ":", ".", "*", "?", "!"}

_is_purely_numeric(s) == s # <<>> /\ \A i \in 1..Len(s) : isdigit(s[i])

\* _finish_tag without its test for numeric keys
_finish_tag_any_key(tags, key, value) ==
    IF key = <<>> THEN [err |-> "EmptyTagComponent", tags |-> tags]
    ELSE IF value = <<>> THEN [err |-> "EmptyTagComponent", tags |-> tags]
    ELSE IF key \in DOMAIN tags THEN [err |-> "DuplicateKey", tags |-> tags]
    ELSE [err |-> "none", tags |-> SetTag(tags, key, value)]

\* _finish_tag(tags, key, value): the dict after the insertion, or the
\* exception raised
_finish_tag(tags, key, value) ==
    IF key = <<>> THEN [err |-> "EmptyTagComponent", tags |-> tags]
    ELSE IF value = <<>> THEN [err |-> "EmptyTagComponent", tags |-> tags]
    ELSE IF key \in DOMAIN tags THEN [err |-> "DuplicateKey", tags |-> tags]
    ELSE IF _is_purely_numeric(key) THEN [err |-> "NumericKey", tags |-> tags]
    ELSE [err |-> "none", tags |-> SetTag(tags, key, value)]

\* the locals of from_string's loop before its first iteration
ParseStart ==
    [state |-> "EXPECTING_KEY", current_key |-> <<>>, current_value |-> <<>>,
     tags |-> EmptyTags, pos |-> 0, err |-> "none"]

\* the tag finished and the value buffer left as it is
FinishAndResetKeepValue(p, value) ==
    LET f == _finish_tag(p.tags, p.current_key, value)
    IN  IF f.err # "none"
        THEN [p EXCEPT !.current_value = value, !.err = f.err]
        ELSE [p EXCEPT !.tags = f.tags, !.current_key = <<>>,
                       !.state = "EXPECTING_KEY", !.pos = p.pos + 1]

\* the three lines  _finish_tag(...); current_key = ""; current_value = "";
\* state = EXPECTING_KEY  followed by the loop's pos += 1
FinishAndReset(p, value) ==
    LET f == _finish_tag(p.tags, p.current_key, value)
    IN  IF f.err # "none"
        THEN [p EXCEPT !.current_value = value, !.err = f.err]
        ELSE [p EXCEPT !.tags = f.tags, !.current_key = <<>>,
                       !.current_value = <<>>, !.state = "EXPECTING_KEY",
                       !.pos = p.pos + 1]

\* one iteration of the loop  while pos < len(chars)  on character c
ParseStep(p, c) ==
    CASE p.state = "EXPECTING_KEY" ->
            IF c = ";" THEN [p EXCEPT !.pos = p.pos + 1]
            ELSE IF _is_valid_key_char(c)
            THEN [p EXCEPT !.current_key = Append(p.current_key, lower(c)),
                           !.state = "IN_KEY", !.pos = p.pos + 1]
            ELSE [p EXCEPT !.err = "InvalidCharacter"]
      [] p.state = "IN_KEY" ->
            IF c = "="
            THEN IF p.current_key = <<>>
                 THEN [p EXCEPT !.err = "EmptyTagComponent"]
                 ELSE [p EXCEPT !.state = "EXPECTING_VALUE", !.pos = p.pos + 1]
            ELSE IF c = ";"
            THEN IF p.current_key = <<>>
                 THEN [p EXCEPT !.err = "EmptyTagComponent"]
                 ELSE FinishAndReset(p, <<"*">>)
            ELSE IF _is_valid_key_char(c)
            THEN [p EXCEPT !.current_key = Append(p.current_key, lower(c)),
                           !.pos = p.pos + 1]
            ELSE [p EXCEPT !.err = "InvalidCharacter"]
      [] p.state = "EXPECTING_VALUE" ->
            IF c = "\""
            THEN [p EXCEPT !.state = "IN_QUOTED_VALUE", !.pos = p.pos + 1]
            ELSE IF c = ";" THEN [p EXCEPT !.err = "EmptyTagComponent"]
            ELSE IF _is_valid_unquoted_value_char(c)
            THEN [p EXCEPT !.current_value = Append(p.current_value, lower(c)),
                           !.state = "IN_UNQUOTED_VALUE", !.pos = p.pos + 1]
            ELSE [p EXCEPT !.err = "InvalidCharacter"]
      [] p.state = "IN_UNQUOTED_VALUE" ->
            IF c = ";" THEN FinishAndReset(p, p.current_value)
            ELSE IF _is_valid_unquoted_value_char(c)
            THEN [p EXCEPT !.current_value = Append(p.current_value, lower(c)),
                           !.pos = p.pos + 1]
            ELSE [p EXCEPT !.err = "InvalidCharacter"]
      [] p.state = "IN_QUOTED_VALUE" ->
            IF c = "\""
            THEN [p EXCEPT !.state = "EXPECTING_SEMI_OR_END", !.pos = p.pos + 1]
            ELSE IF c = "\\"
            THEN [p EXCEPT !.state = "IN_QUOTED_VALUE_ESCAPE", !.pos = p.pos + 1]
            ELSE [p EXCEPT !.current_value = Append(p.current_value, c),
                           !.pos = p.pos + 1]
      [] p.state = "IN_QUOTED_VALUE_ESCAPE" ->
            IF c = "\"" \/ c = "\\"
            THEN [p EXCEPT !.current_value = Append(p.current_value, c),
                           !.state = "IN_QUOTED_VALUE", !.pos = p.pos + 1]
            ELSE [p EXCEPT !.err = "InvalidEscapeSequence"]
      [] p.state = "EXPECTING_SEMI_OR_END" ->
            IF c = ";" THEN FinishAndReset(p, p.current_value)
            ELSE [p EXCEPT !.err = "InvalidCharacter"]

\* the loop: iterations until an exception or the end of chars
RECURSIVE ParseLoop(_, _)
ParseLoop(p, chars) ==
    IF p.err # "none" \/ p.pos >= Len(chars) THEN p
    ELSE ParseLoop(ParseStep(p, chars[p.pos + 1]), chars)

\* the end of input with a key and no value taken for an error
ParseEndValueRequired(prefix, p) ==
    IF p.err # "none" THEN Raise(p.err)
    ELSE IF p.state \in {"IN_UNQUOTED_VALUE", "EXPECTING_SEMI_OR_END"}
    THEN LET f == _finish_tag(p.tags, p.current_key, p.current_value)
         IN  IF f.err # "none" THEN Raise(f.err)
             ELSE Ok(TaggedUrn(prefix, f.tags))
    ELSE IF p.state = "EXPECTING_KEY" THEN Ok(TaggedUrn(prefix, p.tags))
    ELSE IF p.state \in {"IN_QUOTED_VALUE", "IN_QUOTED_VALUE_ESCAPE"}
    THEN Raise("UnterminatedQuote")
    ELSE Raise("EmptyTagComponent")

\* "Handle end of input": the returned URN or the exception
ParseEnd(prefix, p) ==
    IF p.err # "none" THEN Raise(p.err)
    ELSE IF p.state \in {"IN_UNQUOTED_VALUE", "EXPECTING_SEMI_OR_END"}
    THEN LET f == _finish_tag(p.tags, p.current_key, p.current_value)
         IN  IF f.err # "none" THEN Raise(f.err)
             ELSE Ok(TaggedUrn(prefix, f.tags))
    ELSE IF p.state = "EXPECTING_KEY" THEN Ok(TaggedUrn(prefix, p.tags))
    ELSE IF p.state \in {"IN_QUOTED_VALUE", "IN_QUOTED_VALUE_ESCAPE"}
    THEN Raise("UnterminatedQuote")
    ELSE IF p.state = "IN_KEY"
    THEN IF p.current_key = <<>> THEN Raise("EmptyTagComponent")
         ELSE LET f == _finish_tag(p.tags, p.current_key, <<"*">>)
              IN  IF f.err # "none" THEN Raise(f.err)
                  ELSE Ok(TaggedUrn(prefix, f.tags))
    ELSE Raise("EmptyTagComponent")

\* from_string looking for the colon before it looks at the whitespace
from_string_colon_first(s) ==
    IF s = <<>> THEN Raise("Empty")
    ELSE LET colon_pos == find(s, ":")
         IN  IF colon_pos = -1 THEN Raise("MissingPrefix")
             ELSE IF colon_pos = 0 THEN Raise("EmptyPrefix")
             ELSE IF s # strip(s) THEN Raise("WhitespaceInInput")
             ELSE LET prefix == LowerStr(SubSeq(s, 1, colon_pos))
                      tags_part == SubSeq(s, colon_pos + 2, Len(s))
                  IN  IF tags_part = <<>> \/ tags_part = <<";">>
                      THEN Ok(TaggedUrn(prefix, EmptyTags))
                      ELSE ParseEnd(prefix, ParseLoop(ParseStart, tags_part))

\* TaggedUrn.from_string(s)
from_string(s) ==
    IF s # strip(s) THEN Raise("WhitespaceInInput")
    ELSE IF s = <<>> THEN Raise("Empty")
    ELSE LET colon_pos == find(s, ":")
         IN  IF colon_pos = -1 THEN Raise("MissingPrefix")
             ELSE IF colon_pos = 0 THEN Raise("EmptyPrefix")
             ELSE LET prefix == LowerStr(SubSeq(s, 1, colon_pos))
                      tags_part == SubSeq(s, colon_pos + 2, Len(s))
                  IN  IF tags_part = <<>> \/ tags_part = <<";">>
                      THEN Ok(TaggedUrn(prefix, EmptyTags))
                      ELSE ParseEnd(prefix, ParseLoop(ParseStart, tags_part))

-----------------------------------------------------------------------------
(* The serializer: tags_to_string / to_string.                             *)

\* _needs_quoting blind to upper-case letters
_needs_quoting_no_upper(value) ==
    \E i \in 1..Len(value) : value[i] \in {";", "=", "\"", "\\", " "}

_needs_quoting(value) ==
    \E i \in 1..Len(value) :
        value[i] \in {";", "=", "\"", "\\", " "} \/ isupper(value[i])

\* the characters _quote_value puts between the two quotes
RECURSIVE Escaped(_)
Escaped(value) ==
    IF value = <<>> THEN <<>>
    ELSE (IF value[1] \in {"\"", "\\"} THEN <<"\\", value[1]>> ELSE <<value[1]>>)
         \o Escaped(Tail(value))

_quote_value(value) == <<"\"">> \o Escaped(value) \o <<"\"">>

\* sorted(self.tags.items()): the keys in ascending order
RECURSIVE SortedKeys(_)
SortedKeys(S) ==
    IF S = {} THEN <<>>
    ELSE LET m == CHOOSE k \in S : \A j \in S \ {k} : StrLess(k, j)
         IN  <<m>> \o SortedKeys(S \ {m})

\* the text of one tag, "*" written out like the other markers
TagTextStarWritten(k, v) ==
    IF v = <<"*">> THEN k \o <<"=", "*">>
    ELSE IF v = <<"?">> THEN k \o <<"=", "?">>
    ELSE IF v = <<"!">> THEN k \o <<"=", "!">>
    ELSE IF _needs_quoting(v) THEN k \o <<"=">> \o _quote_value(v)
    ELSE k \o <<"=">> \o v

\* the text of one tag
TagText(k, v) ==
    IF v = <<"*">> THEN k
    ELSE IF v = <<"?">> THEN k \o <<"=", "?">>
    ELSE IF v = <<"!">> THEN k \o <<"=", "!">>
    ELSE IF _needs_quoting(v) THEN k \o <<"=">> \o _quote_value(v)
    ELSE k \o <<"=">> \o v

\* ";".join(parts)
RECURSIVE Join(_)
Join(parts) ==
    IF parts = <<>> THEN <<>>
    ELSE IF Len(parts) = 1 THEN parts[1]
    ELSE parts[1] \o <<";">> \o Join(Tail(parts))

tags_to_string(u) ==
    LET ks == SortedKeys(DOMAIN u.tags)
    IN  Join([i \in 1..Len(ks) |-> TagText(ks[i], u.tags[ks[i]])])

to_string(u) == u.prefix \o <<":">> \o tags_to_string(u)

-----------------------------------------------------------------------------
(* The matching engine.                                                    *)

\* outcomes of a matching call: a returned value or a raised PrefixMismatchError
Bool(v) == [kind |-> "bool", val |-> v, expected |-> <<>>, actual |-> <<>>]
Value(v) == [kind |-> "value", val |-> v, expected |-> <<>>, actual |-> <<>>]
PrefixMismatchError(expected, actual) ==
    [kind |-> "PrefixMismatch", val |-> FALSE, expected |-> expected,
     actual |-> actual]
NoOutcome == [kind |-> "none", val |-> FALSE, expected |-> <<>>, actual |-> <<>>]

\* the orders in which  for key in all_keys  may visit the set S
Orders(S) ==
    {s \in [1..Cardinality(S) -> S] :
        \A i, j \in 1..Cardinality(S) : s[i] = s[j] => i = j}

\* the dropped branch: an instance "*" no longer satisfies an exact pattern
_values_match_strict(inst, patt) ==
    IF patt = NoneVal \/ patt = <<"?">> THEN TRUE
    ELSE IF inst = <<"?">> THEN TRUE
    ELSE IF patt = <<"!">> THEN inst = NoneVal \/ inst = <<"!">>
    ELSE IF inst = <<"!">> THEN FALSE
    ELSE IF patt = <<"*">> THEN inst # NoneVal
    ELSE IF inst = NoneVal THEN FALSE
    ELSE inst = patt

\* _values_match taking any two exact values for a match
_values_match_any_exact(inst, patt) ==
    IF patt = NoneVal \/ patt = <<"?">> THEN TRUE
    ELSE IF inst = <<"?">> THEN TRUE
    ELSE IF patt = <<"!">>
    THEN IF inst = NoneVal THEN TRUE
         ELSE IF inst = <<"!">> THEN TRUE
         ELSE FALSE
    ELSE IF inst = <<"!">>
    THEN IF patt = <<"*">> THEN FALSE ELSE FALSE
    ELSE IF patt = <<"*">>
    THEN IF inst = NoneVal THEN FALSE ELSE TRUE
    ELSE IF inst = NoneVal THEN FALSE
    ELSE TRUE

\* TaggedUrn._values_match(inst, patt)
_values_match(inst, patt) ==
    IF patt = NoneVal \/ patt = <<"?">> THEN TRUE
    ELSE IF inst = <<"?">> THEN TRUE
    ELSE IF patt = <<"!">>
    THEN IF inst = NoneVal THEN TRUE
         ELSE IF inst = <<"!">> THEN TRUE
         ELSE FALSE
    ELSE IF inst = <<"!">>
    THEN IF patt = <<"*">> THEN FALSE ELSE FALSE
    ELSE IF patt = <<"*">>
    THEN IF inst = NoneVal THEN FALSE ELSE TRUE
    ELSE IF inst = NoneVal THEN FALSE
    ELSE IF inst = <<"*">> THEN TRUE
    ELSE inst = patt

\* the loop of _check_match over the keys in the order visited: False at
\* the first key whose values do not match
RECURSIVE MatchLoop(_, _, _)
MatchLoop(order, instance_tags, pattern_tags) ==
    IF order = <<>> THEN TRUE
    ELSE IF ~_values_match(GetTag(instance_tags, order[1]),
                           GetTag(pattern_tags, order[1]))
    THEN FALSE
    ELSE MatchLoop(Tail(order), instance_tags, pattern_tags)

\* the exception with its two prefixes exchanged
_check_match_swapped(instance_tags, instance_prefix, pattern_tags, pattern_prefix, order) ==
    IF instance_prefix # pattern_prefix
    THEN PrefixMismatchError(pattern_prefix, instance_prefix)
    ELSE Bool(MatchLoop(order, instance_tags, pattern_tags))

\* TaggedUrn._check_match; order is the iteration order of all_keys
_check_match(instance_tags, instance_prefix, pattern_tags, pattern_prefix, order) ==
    IF instance_prefix # pattern_prefix
    THEN PrefixMismatchError(instance_prefix, pattern_prefix)
    ELSE Bool(MatchLoop(order, instance_tags, pattern_tags))

\* TaggedUrn.conforms_to(pattern)
conforms_to(self, pattern, order) ==
    _check_match(self.tags, self.prefix, pattern.tags, pattern.prefix, order)

\* the receiver passed as the instance
accepts_unswapped(self, instance, order) ==
    _check_match(self.tags, self.prefix, instance.tags, instance.prefix, order)

\* TaggedUrn.accepts(instance)
accepts(self, instance, order) ==
    _check_match(instance.tags, instance.prefix, self.tags, self.prefix, order)

\* the "!" rule dropped: "!" against "*" passes as compatible
_values_compatible_no_bang(v1, v2) ==
    IF v1 = NoneVal \/ v2 = NoneVal THEN TRUE
    ELSE IF v1 = <<"?">> \/ v2 = <<"?">> THEN TRUE
    ELSE IF v1 = <<"*">> \/ v2 = <<"*">> THEN TRUE
    ELSE v1 = v2

\* the "*" rule dropped: "*" against an exact value fails
_values_compatible_no_star(v1, v2) ==
    IF v1 = NoneVal \/ v2 = NoneVal THEN TRUE
    ELSE IF v1 = <<"?">> \/ v2 = <<"?">> THEN TRUE
    ELSE IF v1 = <<"!">> /\ v2 = <<"!">> THEN TRUE
    ELSE IF v1 = <<"!">> \/ v2 = <<"!">> THEN FALSE
    ELSE v1 = v2

\* TaggedUrn._values_compatible(v1, v2)
_values_compatible(v1, v2) ==
    IF v1 = NoneVal \/ v2 = NoneVal THEN TRUE
    ELSE IF v1 = <<"?">> \/ v2 = <<"?">> THEN TRUE
    ELSE IF v1 = <<"!">> /\ v2 = <<"!">> THEN TRUE
    ELSE IF v1 = <<"!">> \/ v2 = <<"!">> THEN FALSE
    ELSE IF v1 = <<"*">> /\ v2 = <<"*">> THEN TRUE
    ELSE IF v1 = <<"*">> \/ v2 = <<"*">> THEN TRUE
    ELSE v1 = v2

\* the loop of is_compatible_with over the keys in the order visited
RECURSIVE CompatibleLoop(_, _, _)
CompatibleLoop(order, tags1, tags2) ==
    IF order = <<>> THEN TRUE
    ELSE IF ~_values_compatible(GetTag(tags1, order[1]), GetTag(tags2, order[1]))
    THEN FALSE
    ELSE CompatibleLoop(Tail(order), tags1, tags2)

\* TaggedUrn.is_compatible_with(other)
is_compatible_with(self, other, order) ==
    IF self.prefix # other.prefix
    THEN PrefixMismatchError(self.prefix, other.prefix)
    ELSE Bool(CompatibleLoop(order, self.tags, other.tags))

\* "*" scored like "!"
TagScoreFlat(v) ==
    IF v = <<"?">> THEN 0
    ELSE IF v = <<"!">> THEN 1
    ELSE IF v = <<"*">> THEN 1
    ELSE 3

\* the score one tag value adds in specificity
TagScore(v) ==
    IF v = <<"?">> THEN 0
    ELSE IF v = <<"!">> THEN 1
    ELSE IF v = <<"*">> THEN 2
    ELSE 3

\* the loop of specificity over the tags still to visit
RECURSIVE ScoreLoop(_, _)
ScoreLoop(tags, keys) ==
    IF keys = {} THEN 0
    ELSE LET k == CHOOSE j \in keys : TRUE
         IN  TagScore(tags[k]) + ScoreLoop(tags, keys \ {k})

\* TaggedUrn.specificity()
specificity(self) == ScoreLoop(self.tags, DOMAIN self.tags)

\* the "?" branch missing: "?" counted as an exact value
TupleStepNoSkip(t, v) ==
    IF v = <<"!">> THEN <<t[1], t[2], t[3] + 1>>
    ELSE IF v = <<"*">> THEN <<t[1], t[2] + 1, t[3]>>
    ELSE <<t[1] + 1, t[2], t[3]>>

\* one iteration of specificity_tuple on the counters
\* (exact, must_have_any, must_not)
TupleStep(t, v) ==
    IF v = <<"?">> THEN t
    ELSE IF v = <<"!">> THEN <<t[1], t[2], t[3] + 1>>
    ELSE IF v = <<"*">> THEN <<t[1], t[2] + 1, t[3]>>
    ELSE <<t[1] + 1, t[2], t[3]>>

RECURSIVE TupleLoop(_, _, _)
TupleLoop(t, tags, keys) ==
    IF keys = {} THEN t
    ELSE LET k == CHOOSE j \in keys : TRUE
         IN  TupleLoop(TupleStep(t, tags[k]), tags, keys \ {k})

\* TaggedUrn.specificity_tuple()
specificity_tuple(self) == TupleLoop(<<0, 0, 0>>, self.tags, DOMAIN self.tags)

\* the compatibility check skipped
is_more_specific_than_unchecked(self, other, order) ==
    IF self.prefix # other.prefix
    THEN PrefixMismatchError(self.prefix, other.prefix)
    ELSE Bool(specificity(self) > specificity(other))

\* TaggedUrn.is_more_specific_than(other)
is_more_specific_than(self, other, order) ==
    IF self.prefix # other.prefix
    THEN PrefixMismatchError(self.prefix, other.prefix)
    ELSE IF ~is_compatible_with(self, other, order).val THEN Bool(FALSE)
    ELSE Bool(specificity(self) > specificity(other))

-----------------------------------------------------------------------------
(* Derived URNs and the builder.                                           *)

\* TaggedUrn.with_tag(key, value)
with_tag(u, key, value) ==
    IF value = <<>> THEN Raise("EmptyTagComponent")
    ELSE Ok(TaggedUrn(u.prefix, SetTag(u.tags, LowerStr(key), value)))

\* TaggedUrnBuilder(prefix)
TaggedUrnBuilder(prefix) == [prefix |-> LowerStr(prefix), tags |-> EmptyTags]

NoBuilder == [prefix |-> <<>>, tags |-> EmptyTags]

\* TaggedUrnBuilder.tag(key, value): the builder afterwards and the exception
builder_tag(bld, key, value) ==
    IF value = <<>> THEN [builder |-> bld, err |-> "EmptyTagComponent"]
    ELSE [builder |-> [bld EXCEPT !.tags = SetTag(bld.tags, LowerStr(key), value)],
          err |-> "none"]

\* TaggedUrnBuilder.solo_tag(key)
builder_solo_tag(bld, key) ==
    [bld EXCEPT !.tags = SetTag(bld.tags, LowerStr(key), <<"*">>)]

\* TaggedUrnBuilder.build()
builder_build(bld) ==
    IF bld.tags = EmptyTags THEN Raise("Empty")
    ELSE Ok(TaggedUrn(bld.prefix, bld.tags))

-----------------------------------------------------------------------------
(* Inputs.                                                                 *)

\* the prefix part of the texts with a tag body
TextHead == <<"C", ":">>

\* tag bodies  a="..."  with any content, closed or left open
QuotedBodies ==
    {<<"a", "=", "\"">> \o w \o t :
        w \in BoundedSeq(Alphabet, MaxQuoted), t \in {<<>>, <<"\"">>}}

Bodies == BoundedSeq(Alphabet, MaxBody) \cup QuotedBodies

Texts == BoundedSeq(Alphabet, MaxRaw) \cup {TextHead \o body : body \in Bodies}

\* most segments of a tag body put together from whole tags
MaxSegs == 3

\* tags as written in a text, and the empty segment
Segments ==
    { <<>>, <<"a">>, <<"A">>, <<"1">>, <<"a", "1">>,
      <<"a", "=", "x">>, <<"A", "=", "y">>, <<"1", "=", "x">>,
      <<"b", "=", "A">>, <<"b", "=", "\"", "A", "\"">>,
      <<"b", "=", "\"", "a", "\"">>, <<"b", "=", "\"", "\"">>,
      <<"b", "=", "*">>, <<"b", "=", "?">>, <<"c", "=", "!">>,
      <<"c", "=", "\"", ";", "\"">>, <<"c", "=", "\"", "\\", "\"", "\"">> }

\* the segments of a list joined by ";"
RECURSIVE JoinSegments(_)
JoinSegments(segs) ==
    IF Len(segs) = 0 THEN <<>>
    ELSE IF Len(segs) = 1 THEN segs[1]
    ELSE segs[1] \o <<";">> \o JoinSegments(Tail(segs))

\* tag bodies of up to MaxSegs segments, with and without a final ";"
SegmentBodies ==
    LET joined == {JoinSegments(segs) : segs \in BoundedSeq(Segments, MaxSegs)}
    IN  joined \cup {body \o <<";">> : body \in joined}

\* the texts of the parsing sessions
AllTexts == Texts \cup {TextHead \o body : body \in SegmentBodies}

\* arguments of tag / solo_tag / with_tag
ArgKeys == {<<"a">>, <<"A">>, <<"1">>}
ArgValues == {<<>>, <<"a">>, <<"A">>, <<",">>, <<"*">>}
ArgPrefixes == {<<"C">>}

-----------------------------------------------------------------------------
(* The construction session: a URN is parsed or built, derived with        *)
(* with_tag, serialized and parsed again.                                  *)

\* the variables of the matcher and of the stepped parser, unused
ExtraIdle ==
    /\ urns = <<>>
    /\ urns2 = <<>>
    /\ parser = ParseStart
    /\ heap = <<>>
    /\ call = NoCall

MatchIdle ==
    /\ a = NoUrn
    /\ b = NoUrn
    /\ op = "none"
    /\ out = NoOutcome

InitParse ==
    /\ text \in Texts
    /\ pc = "start"
    /\ builder = NoBuilder

InitBuild ==
    /\ text = <<>>
    /\ pc = "building"
    /\ builder \in {TaggedUrnBuilder(p) : p \in ArgPrefixes}

Init ==
    /\ InitParse \/ InitBuild
    /\ urn = NoResult
    /\ canon = <<>>
    /\ reparsed = NoResult
    /\ berr = "none"
    /\ nops = 0
    /\ MatchIdle
    /\ ExtraIdle

\* urn = TaggedUrn.from_string(text)
FromString ==
    /\ pc = "start"
    /\ urn' = from_string(text)
    /\ pc' = "constructed"
    /\ UNCHANGED <<text, canon, reparsed, builder, berr, nops>>

\* builder.tag(key, value)
Tag ==
    /\ pc = "building"
    /\ nops < MaxOps
    /\ \E key \in ArgKeys, value \in ArgValues :
          LET r == builder_tag(builder, key, value)
          IN  /\ builder' = r.builder
              /\ berr' = r.err
    /\ nops' = nops + 1
    /\ UNCHANGED <<text, pc, urn, canon, reparsed>>

\* builder.solo_tag(key)
SoloTag ==
    /\ pc = "building"
    /\ nops < MaxOps
    /\ \E key \in ArgKeys : builder' = builder_solo_tag(builder, key)
    /\ berr' = "none"
    /\ nops' = nops + 1
    /\ UNCHANGED <<text, pc, urn, canon, reparsed>>

\* urn = builder.build()
Build ==
    /\ pc = "building"
    /\ urn' = builder_build(builder)
    /\ pc' = "constructed"
    /\ berr' = "none"
    /\ UNCHANGED <<text, canon, reparsed, builder, nops>>

\* urn = urn.with_tag(key, value); urn is kept when the call raises
WithTag ==
    /\ pc = "constructed"
    /\ urn.ok
    /\ nops < MaxOps
    /\ \E key \in ArgKeys, value \in ArgValues :
          LET r == with_tag(urn.urn, key, value)
          IN  /\ urn' = IF r.ok THEN r ELSE urn
              /\ berr' = r.err
    /\ nops' = nops + 1
    /\ UNCHANGED <<text, pc, canon, reparsed, builder>>

\* canon = urn.to_string()
Serialize ==
    /\ pc = "constructed"
    /\ urn.ok
    /\ canon' = to_string(urn.urn)
    /\ pc' = "serialized"
    /\ UNCHANGED <<text, urn, reparsed, builder, berr, nops>>

\* reparsed = TaggedUrn.from_string(canon)
Reparse ==
    /\ pc = "serialized"
    /\ reparsed' = from_string(canon)
    /\ pc' = "reparsed"
    /\ UNCHANGED <<text, urn, canon, builder, berr, nops>>

Next ==
    \/ FromString /\ UNCHANGED <<matchVars, extraVars>>
    \/ Tag /\ UNCHANGED <<matchVars, extraVars>>
    \/ SoloTag /\ UNCHANGED <<matchVars, extraVars>>
    \/ Build /\ UNCHANGED <<matchVars, extraVars>>
    \/ WithTag /\ UNCHANGED <<matchVars, extraVars>>
    \/ Serialize /\ UNCHANGED <<matchVars, extraVars>>
    \/ Reparse /\ UNCHANGED <<matchVars, extraVars>>

Spec == Init /\ [][Next]_vars

-----------------------------------------------------------------------------
(* The matching session: one call of the matching engine on two URNs.      *)

KeyPool == << <<"a">>, <<"b">>, <<"a", "b">>, <<"b", "a">> >>
MatchKeys == {KeyPool[i] : i \in 1..MaxKeys}
MatchValues == {<<"?">>, <<"!">>, <<"*">>, <<"x">>, <<"y">>}
MatchPrefixes == {<<"c">>, <<"b">>}

\* every dict over the keys
TagMaps == UNION {[S -> MatchValues] : S \in SUBSET MatchKeys}

MatchUrns == {TaggedUrn(p, t) : p \in MatchPrefixes, t \in TagMaps}

all_keys == DOMAIN a.tags \cup DOMAIN b.tags

InitMatch ==
    /\ a \in MatchUrns
    /\ b \in MatchUrns
    /\ op = "none"
    /\ out = NoOutcome
    /\ text = <<>>
    /\ pc = "match"
    /\ urn = NoResult
    /\ canon = <<>>
    /\ reparsed = NoResult
    /\ builder = NoBuilder
    /\ berr = "none"
    /\ nops = 0
    /\ ExtraIdle

\* a.conforms_to(b)
ConformsTo ==
    /\ op = "none"
    /\ \E order \in Orders(all_keys) : out' = conforms_to(a, b, order)
    /\ op' = "conforms_to"
    /\ UNCHANGED <<a, b>>

\* b.accepts(a)
Accepts ==
    /\ op = "none"
    /\ \E order \in Orders(all_keys) : out' = accepts(b, a, order)
    /\ op' = "accepts"
    /\ UNCHANGED <<a, b>>

\* a.is_compatible_with(b)
IsCompatibleWith ==
    /\ op = "none"
    /\ \E order \in Orders(all_keys) : out' = is_compatible_with(a, b, order)
    /\ op' = "is_compatible_with"
    /\ UNCHANGED <<a, b>>

\* a.is_more_specific_than(b)
IsMoreSpecificThan ==
    /\ op = "none"
    /\ \E order \in Orders(all_keys) : out' = is_more_specific_than(a, b, order)
    /\ op' = "is_more_specific_than"
    /\ UNCHANGED <<a, b>>

\* a.specificity()
Specificity ==
    /\ op = "none"
    /\ out' = Value(specificity(a))
    /\ op' = "specificity"
    /\ UNCHANGED <<a, b>>

\* a.specificity_tuple()
SpecificityTuple ==
    /\ op = "none"
    /\ out' = Value(specificity_tuple(a))
    /\ op' = "specificity_tuple"
    /\ UNCHANGED <<a, b>>

NextMatch ==
    \/ ConformsTo /\ UNCHANGED <<buildVars, extraVars>>
    \/ Accepts /\ UNCHANGED <<buildVars, extraVars>>
    \/ IsCompatibleWith /\ UNCHANGED <<buildVars, extraVars>>
    \/ IsMoreSpecificThan /\ UNCHANGED <<buildVars, extraVars>>
    \/ Specificity /\ UNCHANGED <<buildVars, extraVars>>
    \/ SpecificityTuple /\ UNCHANGED <<buildVars, extraVars>>

SpecMatch == InitMatch /\ [][NextMatch]_vars

-----------------------------------------------------------------------------
(* Properties of the construction session (Spec).                          *)

\* C1: round trip.  A text that from_string accepts is serialized by
\* to_string to a text that from_string accepts again, and the URN parsed
\* from it equals the URN parsed from the original text.
C1_RoundTrip ==
    (pc = "reparsed" /\ builder = NoBuilder /\ nops = 0) =>
        (reparsed.ok /\ reparsed.urn = urn.urn)

\* C2: idempotent canonicalization.  For a URN made by from_string, by the
\* builder or by with_tag on such a URN, from_string(to_string(u)) succeeds
\* and serializes to the same text as u.
C2_IdempotentCanonical ==
    pc = "reparsed" => (reparsed.ok /\ to_string(reparsed.urn) = canon)

-----------------------------------------------------------------------------
(* Properties of the matching session (SpecMatch).                         *)

IsMarker(v) == v \in {<<"?">>, <<"!">>, <<"*">>}
IsExact(v) == v # NoneVal /\ ~IsMarker(v)

\* the kind of a tag value, or of its absence
Kind(v) ==
    IF v = NoneVal THEN "absent"
    ELSE IF v = <<"?">> THEN "?"
    ELSE IF v = <<"!">> THEN "!"
    ELSE IF v = <<"*">> THEN "*"
    ELSE "exact"

\* the cells <<instance kind, pattern kind>> of the truth table that are
\* true whatever the exact values are
TrueCells ==
    {<<i, "absent">> : i \in {"absent", "?", "!", "*", "exact"}}
    \cup {<<i, "?">> : i \in {"absent", "?", "!", "*", "exact"}}
    \cup {<<"?", p>> : p \in {"absent", "?", "!", "*", "exact"}}
    \cup {<<"absent", "!">>, <<"!", "!">>}
    \cup {<<"*", "*">>, <<"exact", "*">>}
    \cup {<<"*", "exact">>}

\* one cell of the truth table
Cell(inst, patt) ==
    \/ <<Kind(inst), Kind(patt)>> \in TrueCells
    \/ Kind(inst) = "exact" /\ Kind(patt) = "exact" /\ inst = patt

\* one order of visiting the keys S
KeyOrder(S) == SortedKeys(S)

\* C3: for equal prefixes a.conforms_to(b) is the conjunction of the truth
\* table's cells over the union of the keys, in whatever order the keys are
\* visited.
C3_TruthTable ==
    (op = "conforms_to" /\ a.prefix = b.prefix) =>
        out = Bool(\A k \in all_keys : Cell(GetTag(a.tags, k), GetTag(b.tags, k)))

\* a.conforms_to(b) returned False on two keys of which one matches
C3_Witness ==
    /\ op = "conforms_to"
    /\ out = Bool(FALSE)
    /\ Cardinality(all_keys) = 2
    /\ \E k \in all_keys : Cell(GetTag(a.tags, k), GetTag(b.tags, k))
    /\ \E k \in all_keys : GetTag(a.tags, k) = <<"*">> /\ GetTag(b.tags, k) = <<"!">>

\* C4: with different prefixes conforms_to, is_compatible_with and
\* is_more_specific_than raise PrefixMismatch carrying the receiver's prefix
\* as expected and the argument's as actual, whatever the tags.
C4_PrefixSafety ==
    (/\ op \in {"conforms_to", "is_compatible_with", "is_more_specific_than"}
     /\ a.prefix # b.prefix) =>
        out = PrefixMismatchError(a.prefix, b.prefix)

\* a call on two tag-less URNs of different prefixes raised
C4_Witness ==
    /\ op = "is_compatible_with"
    /\ a.prefix # b.prefix
    /\ a.tags = EmptyTags
    /\ b.tags = EmptyTags
    /\ out.kind = "PrefixMismatch"

\* C5: a.conforms_to(b) and b.accepts(a) have the same outcome: the same
\* boolean or the same PrefixMismatch.
C5_AcceptsIsConformsTo ==
    /\ op = "accepts" => \A order \in Orders(all_keys) : out = conforms_to(a, b, order)
    /\ op = "conforms_to" => \A order \in Orders(all_keys) : out = accepts(b, a, order)

\* b.accepts(a) returned True where a.accepts(b) would not
C5_Witness ==
    /\ op = "accepts"
    /\ out = Bool(TRUE)
    /\ accepts(a, b, KeyOrder(all_keys)) = Bool(FALSE)

\* i.conforms_to(p) for URNs of one prefix
Conforms(i, p) ==
    conforms_to(i, p, KeyOrder(DOMAIN i.tags \cup DOMAIN p.tags)).val

\* the URNs of a prefix: each tag an exact value, "*", "!", "?" or absent
AnyInstances(prefix) == {i \in MatchUrns : i.prefix = prefix}

\* the URNs of a prefix whose tags are all exact values
ExactInstances(prefix) ==
    {i \in MatchUrns :
        i.prefix = prefix /\ \A k \in DOMAIN i.tags : IsExact(i.tags[k])}

\* C6 as stated: a.is_compatible_with(b) is true iff some URN i, its tags
\* exact values, "*", "!", "?" or absent, conforms to both a and b.
C6_ExistsAnyInstance ==
    (op = "is_compatible_with" /\ a.prefix = b.prefix) =>
        (out.val <=> \E i \in AnyInstances(a.prefix) : Conforms(i, a) /\ Conforms(i, b))

\* C6 amended: a.is_compatible_with(b) is true iff some URN i whose tags
\* are all exact values (or absent) conforms to both a and b.
C6_ExistsExactInstance ==
    (op = "is_compatible_with" /\ a.prefix = b.prefix) =>
        (out.val <=> \E i \in ExactInstances(a.prefix) : Conforms(i, a) /\ Conforms(i, b))

\* a.is_compatible_with(b) returned False although a URN with a "?" or "*"
\* tag conforms to both
C6_Witness ==
    /\ op = "is_compatible_with"
    /\ out = Bool(FALSE)
    /\ \E i \in AnyInstances(a.prefix) : Conforms(i, a) /\ Conforms(i, b)

\* the per-key rule of compatibility
CompatibleRule(v1, v2) ==
    \/ v1 = NoneVal \/ v2 = NoneVal
    \/ v1 = <<"?">> \/ v2 = <<"?">>
    \/ v1 = <<"!">> /\ v2 = <<"!">>
    \/ v1 # <<"!">> /\ v2 # <<"!">> /\ (v1 = <<"*">> \/ v2 = <<"*">>)
    \/ IsExact(v1) /\ IsExact(v2) /\ v1 = v2

\* C7: for equal prefixes a.is_compatible_with(b) is the conjunction of the
\* per-key rule over the union of the keys, and b.is_compatible_with(a)
\* returns the same.
C7_CompatibleRules ==
    (op = "is_compatible_with" /\ a.prefix = b.prefix) =>
        /\ out = Bool(\A k \in all_keys :
                        CompatibleRule(GetTag(a.tags, k), GetTag(b.tags, k)))
        /\ \A order \in Orders(all_keys) : out = is_compatible_with(b, a, order)

\* a.is_compatible_with(b) returned False on a key with "!" on one side
\* and "*" or an exact value on the other, the other key being compatible
C7_Witness ==
    /\ op = "is_compatible_with"
    /\ out = Bool(FALSE)
    /\ \E k \in all_keys :
          /\ GetTag(a.tags, k) = <<"!">>
          /\ GetTag(b.tags, k) = <<"*">> \/ IsExact(GetTag(b.tags, k))
    /\ \E k \in all_keys : GetTag(a.tags, k) = <<"*">> /\ IsExact(GetTag(b.tags, k))

\* the keys of u whose value is of the given kind
KeysOfKind(u, kind) == {k \in DOMAIN u.tags : Kind(u.tags[k]) = kind}

\* C8: specificity(u) is the sum of the per-tag scores: 0 for each "?",
\* 1 for each "!", 2 for each "*", 3 for each exact value; 0 without tags.
C8_SpecificitySum ==
    op = "specificity" =>
        /\ out.val = 0 * Cardinality(KeysOfKind(a, "?"))
                     + 1 * Cardinality(KeysOfKind(a, "!"))
                     + 2 * Cardinality(KeysOfKind(a, "*"))
                     + 3 * Cardinality(KeysOfKind(a, "exact"))
        /\ a.tags = EmptyTags => out.val = 0

\* specificity returned 5 for an exact value and a "*"
C8_Witness ==
    /\ op = "specificity"
    /\ out.val = 5
    /\ Cardinality(KeysOfKind(a, "exact")) = 1
    /\ Cardinality(KeysOfKind(a, "*")) = 1

\* C9: specificity_tuple(u) is (exact tags, "*" tags, "!" tags); "?" tags
\* are in no slot, so the slots sum to the number of tags that are not "?",
\* and specificity(u) = 3 * exact + 2 * must_have_any + must_not.
C9_SpecificityTuple ==
    op = "specificity_tuple" =>
        /\ out.val = <<Cardinality(KeysOfKind(a, "exact")),
                       Cardinality(KeysOfKind(a, "*")),
                       Cardinality(KeysOfKind(a, "!"))>>
        /\ out.val[1] + out.val[2] + out.val[3]
              = Cardinality(DOMAIN a.tags \ KeysOfKind(a, "?"))
        /\ specificity(a) = 3 * out.val[1] + 2 * out.val[2] + out.val[3]

\* specificity_tuple returned (0, 0, 1) for a URN with a "?" and a "!"
C9_Witness ==
    /\ op = "specificity_tuple"
    /\ out.val = <<0, 0, 1>>
    /\ Cardinality(KeysOfKind(a, "?")) = 1

\* C10: for equal prefixes a.is_more_specific_than(b) is False when a and b
\* are not compatible and otherwise is specificity(a) > specificity(b); it
\* is False for a = b and never True in both directions.
C10_MoreSpecific ==
    (op = "is_more_specific_than" /\ a.prefix = b.prefix) =>
        /\ \A order \in Orders(all_keys) :
              out = IF is_compatible_with(a, b, order).val
                    THEN Bool(specificity(a) > specificity(b))
                    ELSE Bool(FALSE)
        /\ a = b => out = Bool(FALSE)
        /\ out.val =>
              \A order \in Orders(all_keys) :
                  is_more_specific_than(b, a, order) = Bool(FALSE)

\* a.is_more_specific_than(b) returned False for an a of higher specificity
\* that is not compatible with b
C10_Witness ==
    /\ op = "is_more_specific_than"
    /\ out = Bool(FALSE)
    /\ specificity(a) > specificity(b)
    /\ a.prefix = b.prefix

-----------------------------------------------------------------------------
(* UrnMatcher.                                                             *)

\* the order in which a call made by UrnMatcher visits the keys of two
\* URNs; the outcome of conforms_to / is_compatible_with is the same for
\* every order
VisitOrder(u, v) == SortedKeys(DOMAIN u.tags \cup DOMAIN v.tags)

\* ties go to the candidate seen last
ReplacesBestOnTie(best, specificity_, best_specificity) ==
    best = 0 \/ specificity_ >= best_specificity

\* the test  best is None or specificity > best_specificity ; best is the
\* index of the best candidate so far, 0 for None
ReplacesBest(best, specificity_, best_specificity) ==
    best = 0 \/ specificity_ > best_specificity

\* the loop of find_best_match from candidate i on
RECURSIVE BestLoop(_, _, _, _, _)
BestLoop(candidates, request, i, best, best_specificity) ==
    IF i > Len(candidates) THEN Value(best)
    ELSE LET c == conforms_to(candidates[i], request,
                              VisitOrder(candidates[i], request))
         IN  IF c.kind = "PrefixMismatch" THEN c
             ELSE IF c.val /\ ReplacesBest(best, specificity(candidates[i]),
                                           best_specificity)
             THEN BestLoop(candidates, request, i + 1, i,
                           specificity(candidates[i]))
             ELSE BestLoop(candidates, request, i + 1, best, best_specificity)

\* UrnMatcher.find_best_match(urns, request): the index in urns of the
\* returned candidate, 0 for None
find_best_match(candidates, request) == BestLoop(candidates, request, 1, 0, 0)

\* the first loop of find_all_matches from candidate i on: the indices of
\* the candidates appended to results
RECURSIVE FilterLoop(_, _, _, _)
FilterLoop(candidates, request, i, results) ==
    IF i > Len(candidates) THEN Value(results)
    ELSE LET c == conforms_to(candidates[i], request,
                              VisitOrder(candidates[i], request))
         IN  IF c.kind = "PrefixMismatch" THEN c
             ELSE FilterLoop(candidates, request, i + 1,
                             IF c.val THEN Append(results, i) ELSE results)

\* x put into the sorted list before the entries of equal key
RECURSIVE InsertBeforeEqual(_, _, _)
InsertBeforeEqual(sorted, x, candidates) ==
    IF sorted = <<>> THEN <<x>>
    ELSE IF specificity(candidates[sorted[1]]) > specificity(candidates[x])
    THEN <<sorted[1]>> \o InsertBeforeEqual(Tail(sorted), x, candidates)
    ELSE <<x>> \o sorted

\* x put into the sorted list after every entry whose key is not smaller
RECURSIVE InsertStable(_, _, _)
InsertStable(sorted, x, candidates) ==
    IF sorted = <<>> THEN <<x>>
    ELSE IF specificity(candidates[sorted[1]]) >= specificity(candidates[x])
    THEN <<sorted[1]>> \o InsertStable(Tail(sorted), x, candidates)
    ELSE <<x>> \o sorted

RECURSIVE SortLoop(_, _, _)
SortLoop(sorted, rest, candidates) ==
    IF rest = <<>> THEN sorted
    ELSE SortLoop(InsertStable(sorted, rest[1], candidates), Tail(rest), candidates)

\* an ascending sort read backwards: entries of equal key change places
RECURSIVE SortReversed(_, _)
SortReversed(results, candidates) ==
    IF results = <<>> THEN <<>>
    ELSE LET m == CHOOSE i \in 1..Len(results) :
                    \A j \in 1..Len(results) :
                        \/ specificity(candidates[results[j]])
                              < specificity(candidates[results[i]])
                        \/ /\ specificity(candidates[results[j]])
                                 = specificity(candidates[results[i]])
                           /\ j <= i
         IN  <<results[m]>>
             \o SortReversed(SubSeq(results, 1, m - 1)
                             \o SubSeq(results, m + 1, Len(results)), candidates)

\* results.sort(key=specificity, reverse=True): list.sort is stable, also
\* with reverse=True
SortBySpecificity(results, candidates) == SortLoop(<<>>, results, candidates)

\* UrnMatcher.find_all_matches(urns, request): the indices in urns of the
\* returned candidates, in the order returned
find_all_matches(candidates, request) ==
    LET f == FilterLoop(candidates, request, 1, <<>>)
    IN  IF f.kind = "PrefixMismatch" THEN f
        ELSE Value(SortBySpecificity(f.val, candidates))

\* True only when every pair is compatible
RECURSIVE CompatibleAllLoop(_, _, _, _)
CompatibleAllLoop(set1, set2, i, j) ==
    IF i > Len(set1) THEN Bool(Len(set1) > 0 /\ Len(set2) > 0)
    ELSE IF j > Len(set2) THEN CompatibleAllLoop(set1, set2, i + 1, 1)
    ELSE LET c == is_compatible_with(set1[i], set2[j], VisitOrder(set1[i], set2[j]))
         IN  IF c.kind = "PrefixMismatch" THEN c
             ELSE IF ~c.val THEN Bool(FALSE)
             ELSE CompatibleAllLoop(set1, set2, i, j + 1)

are_compatible_all(set1, set2) == CompatibleAllLoop(set1, set2, 1, 1)

\* the two loops of are_compatible from the pair (i, j) on
RECURSIVE CompatiblePairLoop(_, _, _, _)
CompatiblePairLoop(set1, set2, i, j) ==
    IF i > Len(set1) THEN Bool(FALSE)
    ELSE IF j > Len(set2) THEN CompatiblePairLoop(set1, set2, i + 1, 1)
    ELSE LET c == is_compatible_with(set1[i], set2[j], VisitOrder(set1[i], set2[j]))
         IN  IF c.kind = "PrefixMismatch" THEN c
             ELSE IF c.val THEN Bool(TRUE)
             ELSE CompatiblePairLoop(set1, set2, i, j + 1)

\* are_compatible comparing all the prefixes before any pair of tags
are_compatible_prefix_first(set1, set2) ==
    IF \E i \in 1..Len(set1), j \in 1..Len(set2) : set1[i].prefix # set2[j].prefix
    THEN LET m == CHOOSE m \in (1..Len(set1)) \X (1..Len(set2)) :
                     set1[m[1]].prefix # set2[m[2]].prefix
         IN  PrefixMismatchError(set1[m[1]].prefix, set2[m[2]].prefix)
    ELSE CompatiblePairLoop(set1, set2, 1, 1)

\* UrnMatcher.are_compatible(urns1, urns2)
are_compatible(set1, set2) == CompatiblePairLoop(set1, set2, 1, 1)

-----------------------------------------------------------------------------
(* The matcher session: one call of UrnMatcher.                            *)

\* most candidates handed to find_best_match / find_all_matches
MaxCands == 3
\* most URNs in each collection handed to are_compatible
MaxSet == 2

\* the URNs candidates and requests are drawn from: one key, any value
CandPool ==
    {TaggedUrn(q, t) : q \in MatchPrefixes,
                       t \in UNION {[S -> MatchValues] : S \in SUBSET {<<"a">>}}}

\* the URNs the collections of are_compatible are drawn from
SetPool ==
    {u \in CandPool : \A k \in DOMAIN u.tags : u.tags[k] \in {<<"!">>, <<"*">>, <<"x">>}}

InitSelect ==
    /\ urns \in BoundedSeq(CandPool, MaxCands)
    /\ urns2 = <<>>
    /\ a \in CandPool
    /\ pc = "select"

InitSets ==
    /\ urns \in BoundedSeq(SetPool, MaxSet)
    /\ urns2 \in BoundedSeq(SetPool, MaxSet)
    /\ a = NoUrn
    /\ pc = "sets"

InitMatcher ==
    /\ InitSelect \/ InitSets
    /\ b = NoUrn
    /\ op = "none"
    /\ out = NoOutcome
    /\ text = <<>>
    /\ urn = NoResult
    /\ canon = <<>>
    /\ reparsed = NoResult
    /\ builder = NoBuilder
    /\ berr = "none"
    /\ nops = 0
    /\ parser = ParseStart
    /\ heap = <<>>
    /\ call = NoCall

\* UrnMatcher.find_best_match(urns, a)
FindBestMatch ==
    /\ pc = "select"
    /\ op = "none"
    /\ out' = find_best_match(urns, a)
    /\ op' = "find_best_match"
    /\ UNCHANGED <<a, b, urns, urns2>>

\* UrnMatcher.find_all_matches(urns, a)
FindAllMatches ==
    /\ pc = "select"
    /\ op = "none"
    /\ out' = find_all_matches(urns, a)
    /\ op' = "find_all_matches"
    /\ UNCHANGED <<a, b, urns, urns2>>

\* UrnMatcher.are_compatible(urns, urns2)
AreCompatible ==
    /\ pc = "sets"
    /\ op = "none"
    /\ out' = are_compatible(urns, urns2)
    /\ op' = "are_compatible"
    /\ UNCHANGED <<a, b, urns, urns2>>

NextMatcher ==
    \/ FindBestMatch /\ UNCHANGED <<buildVars, parser, heap, call>>
    \/ FindAllMatches /\ UNCHANGED <<buildVars, parser, heap, call>>
    \/ AreCompatible /\ UNCHANGED <<buildVars, parser, heap, call>>

SpecMatcher == InitMatcher /\ [][NextMatcher]_vars

-----------------------------------------------------------------------------
(* Properties of UrnMatcher.                                               *)

\* the candidates all share the request's prefix
SamePrefix == \A i \in 1..Len(urns) : urns[i].prefix = a.prefix

\* the indices of the candidates that conform to the request
ConformingAt == {i \in 1..Len(urns) : Conforms(urns[i], a)}

\* the conforming candidates of maximum specificity
TopAt ==
    {i \in ConformingAt :
        \A j \in ConformingAt : specificity(urns[j]) <= specificity(urns[i])}

\* C11: for candidates that all share the request's prefix,
\* find_best_match returns None iff no candidate conforms to the request,
\* and otherwise the candidate at the smallest index among the conforming
\* candidates of maximum specificity, also when that maximum is 0.
C11_BestMatch ==
    (op = "find_best_match" /\ SamePrefix) =>
        /\ out.kind = "value"
        /\ (out.val = 0) <=> (ConformingAt = {})
        /\ ConformingAt # {} =>
              /\ out.val \in TopAt
              /\ \A i \in TopAt : out.val <= i

\* a tie between two conforming candidates of maximum specificity, a
\* less specific conforming candidate before them
C11_Witness ==
    /\ op = "find_best_match"
    /\ SamePrefix
    /\ Len(urns) = 3
    /\ ConformingAt = {1, 2, 3}
    /\ TopAt = {2, 3}
    /\ urns[2] # urns[3]
    /\ out = Value(2)

\* the only conforming candidates have specificity 0
C11_WitnessZero ==
    /\ op = "find_best_match"
    /\ SamePrefix
    /\ Cardinality(ConformingAt) = 2
    /\ \A i \in ConformingAt : specificity(urns[i]) = 0
    /\ out.val \in ConformingAt

\* C12: for candidates that all share the request's prefix,
\* find_all_matches returns exactly the conforming candidates, each as often
\* as it occurs in the input, by non-increasing specificity, candidates of
\* equal specificity in their input order.
C12_AllMatches ==
    (op = "find_all_matches" /\ SamePrefix) =>
        /\ out.kind = "value"
        /\ Len(out.val) = Cardinality(ConformingAt)
        /\ {out.val[n] : n \in 1..Len(out.val)} = ConformingAt
        /\ \A m, n \in 1..Len(out.val) :
              m < n =>
                 \/ specificity(urns[out.val[m]]) > specificity(urns[out.val[n]])
                 \/ /\ specificity(urns[out.val[m]]) = specificity(urns[out.val[n]])
                    /\ out.val[m] < out.val[n]

\* three matches returned, the most specific one given last, the other two
\* of equal specificity and different
C12_Witness ==
    /\ op = "find_all_matches"
    /\ SamePrefix
    /\ Len(urns) = 3
    /\ out.kind = "value"
    /\ out.val = <<3, 1, 2>>
    /\ urns[1] # urns[2]
    /\ specificity(urns[1]) = specificity(urns[2])

\* the same candidate given twice is returned twice
C12_WitnessTwice ==
    /\ op = "find_all_matches"
    /\ SamePrefix
    /\ Len(urns) = 3
    /\ urns[1] = urns[3]
    /\ out = Value(<<1, 3>>)

\* all URNs of both collections share one prefix
OnePrefix ==
    \A u, v \in {urns[i] : i \in 1..Len(urns)} \cup {urns2[j] : j \in 1..Len(urns2)} :
        u.prefix = v.prefix

\* the rule of compatibility on every key of either URN
Compatible(u, v) ==
    \A k \in DOMAIN u.tags \cup DOMAIN v.tags :
        CompatibleRule(GetTag(u.tags, k), GetTag(v.tags, k))

\* C13: for collections whose URNs share one prefix, are_compatible is true
\* iff at least one pair across the collections is compatible; it is false
\* when either collection is empty.
C13_AnyPair ==
    (op = "are_compatible" /\ OnePrefix) =>
        /\ out = Bool(\E i \in 1..Len(urns), j \in 1..Len(urns2) :
                         Compatible(urns[i], urns2[j]))
        /\ (urns = <<>> \/ urns2 = <<>>) => out = Bool(FALSE)

\* true with one compatible pair and one incompatible pair
C13_Witness ==
    /\ op = "are_compatible"
    /\ OnePrefix
    /\ out = Bool(TRUE)
    /\ \E i \in 1..Len(urns), j \in 1..Len(urns2) : ~Compatible(urns[i], urns2[j])
    /\ ~Compatible(urns[1], urns2[1])

\* false on an empty collection facing a non-empty one
C13_WitnessEmpty ==
    /\ op = "are_compatible"
    /\ urns = <<>>
    /\ urns2 # <<>>
    /\ out = Bool(FALSE)

-----------------------------------------------------------------------------
(* The parsing session: a text is parsed, the URN serialized, the canonical *)
(* text parsed again.                                                       *)

InitText ==
    /\ text \in AllTexts
    /\ pc = "start"
    /\ builder = NoBuilder
    /\ urn = NoResult
    /\ canon = <<>>
    /\ reparsed = NoResult
    /\ berr = "none"
    /\ nops = 0
    /\ MatchIdle
    /\ ExtraIdle

NextText ==
    \/ FromString /\ UNCHANGED <<matchVars, extraVars>>
    \/ Serialize /\ UNCHANGED <<matchVars, extraVars>>
    \/ Reparse /\ UNCHANGED <<matchVars, extraVars>>

SpecText == InitText /\ [][NextText]_vars

\* from_string(text) has returned or raised
Parsed == pc \in {"constructed", "serialized", "reparsed"}

EdgeWhitespace ==
    text # <<>> /\ (text[1] \in Whitespace \/ text[Len(text)] \in Whitespace)

HasColon == \E i \in 1..Len(text) : text[i] = ":"

\* the text before the first colon, lowercased
PrefixText ==
    LET i == CHOOSE n \in 1..Len(text) :
                text[n] = ":" /\ \A m \in 1..(n - 1) : text[m] # ":"
    IN  [m \in 1..(i - 1) |-> lower(text[m])]

FastFailures == {"WhitespaceInInput", "Empty", "MissingPrefix", "EmptyPrefix"}

\* C14: leading or trailing whitespace fails WhitespaceInInput, also when
\* the text is all whitespace or has no colon; otherwise the empty text
\* fails Empty; otherwise a text without colon fails MissingPrefix;
\* otherwise a colon at position 0 fails EmptyPrefix; in every other case
\* none of the four is raised and the prefix of a returned URN is the
\* non-empty lowercased text before the first colon.
C14_FastFailures ==
    Parsed =>
        IF EdgeWhitespace THEN urn = Raise("WhitespaceInInput")
        ELSE IF text = <<>> THEN urn = Raise("Empty")
        ELSE IF ~HasColon THEN urn = Raise("MissingPrefix")
        ELSE IF text[1] = ":" THEN urn = Raise("EmptyPrefix")
        ELSE /\ urn.err \notin FastFailures
             /\ urn.ok => urn.urn.prefix = PrefixText /\ urn.urn.prefix # <<>>

\* whitespace wins over a colon at position 0
C14_Witness ==
    /\ Parsed
    /\ text # <<>>
    /\ text[1] = ":"
    /\ text[Len(text)] \in Whitespace
    /\ urn = Raise("WhitespaceInInput")

\* whitespace wins over the missing colon, in a text of whitespace only
C14_WitnessBlank ==
    /\ Parsed
    /\ text = <<" ", " ">>
    /\ urn = Raise("WhitespaceInInput")

\* an upper-case prefix comes back lowercased
C14_WitnessPrefix ==
    /\ Parsed
    /\ urn.ok
    /\ text[1] = "A"
    /\ urn.urn.prefix = <<"a">>

-----------------------------------------------------------------------------
(* The stepped parse: from_string(text) taken one loop iteration at a time. *)

\* tags_part = s[colon_pos + 1:]
TagsPart(s) == SubSeq(s, find(s, ":") + 2, Len(s))

\* prefix = s[:colon_pos].lower()
PrefixPart(s) == LowerStr(SubSeq(s, 1, find(s, ":")))

\* from_string(s) gets as far as its loop: no fast failure and no early
\* return on an empty tag body
EntersLoop(s) ==
    /\ s = strip(s)
    /\ s # <<>>
    /\ find(s, ":") > 0
    /\ TagsPart(s) # <<>>
    /\ TagsPart(s) # <<";">>

InitStep ==
    /\ text \in AllTexts
    /\ pc = "start"
    /\ parser = ParseStart
    /\ urn = NoResult
    /\ canon = <<>>
    /\ reparsed = NoResult
    /\ builder = NoBuilder
    /\ berr = "none"
    /\ nops = 0
    /\ urns = <<>>
    /\ urns2 = <<>>
    /\ heap = <<>>
    /\ call = NoCall
    /\ MatchIdle

\* from_string up to its loop: a fast failure, the early return, or the
\* loop entered with its locals set
EnterLoop ==
    /\ pc = "start"
    /\ IF EntersLoop(text)
       THEN pc' = "loop" /\ UNCHANGED urn
       ELSE pc' = "constructed" /\ urn' = from_string(text)
    /\ UNCHANGED <<text, parser>>

\* one iteration of the loop; an exception raised in it leaves from_string
LoopStep ==
    /\ pc = "loop"
    /\ parser.pos < Len(TagsPart(text))
    /\ parser' = ParseStep(parser, TagsPart(text)[parser.pos + 1])
    /\ IF parser'.err # "none"
       THEN pc' = "constructed" /\ urn' = Raise(parser'.err)
       ELSE UNCHANGED <<pc, urn>>
    /\ UNCHANGED text

\* the loop is left at the end of the input: "Handle end of input"
EndOfInput ==
    /\ pc = "loop"
    /\ parser.pos >= Len(TagsPart(text))
    /\ urn' = ParseEnd(PrefixPart(text), parser)
    /\ pc' = "constructed"
    /\ UNCHANGED <<text, parser>>

stepFrame ==
    <<canon, reparsed, builder, berr, nops, urns, urns2, a, b, op, out, heap, call>>

NextStep ==
    \/ EnterLoop /\ UNCHANGED stepFrame
    \/ LoopStep /\ UNCHANGED stepFrame
    \/ EndOfInput /\ UNCHANGED stepFrame

SpecStep == InitStep /\ [][NextStep]_vars

\* the stepped parse ends as from_string does
StepAgrees == pc = "constructed" => urn = from_string(text)

-----------------------------------------------------------------------------
(* Properties of the parser's state machine.                                *)

\* the classes of input characters in the transition table
KeyChars == LowerLetters \cup UpperLetters \cup Digits \cup {"_", "-", "/", ":", "."}
ValueOnlyChars == {"*", "?", "!"}

CharClass(c) ==
    IF c = ";" THEN "semi"
    ELSE IF c = "=" THEN "eq"
    ELSE IF c = "\"" THEN "quote"
    ELSE IF c = "\\" THEN "backslash"
    ELSE IF c \in KeyChars THEN "key"
    ELSE IF c \in ValueOnlyChars THEN "valueonly"
    ELSE "other"

\* tag finalization as stated: the error, or the tags with the new one
Finalized(tags, key, value) ==
    IF key = <<>> \/ value = <<>> THEN [err |-> "EmptyTagComponent", tags |-> tags]
    ELSE IF \E k \in DOMAIN tags : k = LowerStr(key)
    THEN [err |-> "DuplicateKey", tags |-> tags]
    ELSE IF \A n \in 1..Len(key) : key[n] \in Digits
    THEN [err |-> "NumericKey", tags |-> tags]
    ELSE [err |-> "none",
          tags |-> [k \in DOMAIN tags \cup {key} |->
                       IF k = key THEN value ELSE tags[k]]]

Fails(p, e) == [p EXCEPT !.err = e]

Moves(p, state) == [p EXCEPT !.state = state, !.pos = p.pos + 1]

\* "finish tag, -> ExpectingKey"
Finishes(p, value) ==
    LET f == Finalized(p.tags, p.current_key, value)
    IN  IF f.err # "none" THEN Fails(p, f.err)
        ELSE [p EXCEPT !.tags = f.tags, !.current_key = <<>>,
                       !.current_value = <<>>, !.state = "EXPECTING_KEY",
                       !.pos = p.pos + 1]

\* the row of the transition table for the state of p and the class of c
TableStep(p, c) ==
    LET cls == CharClass(c)
        valuechar == cls \in {"key", "valueonly"}
    IN  CASE p.state = "EXPECTING_KEY" ->
                IF cls = "semi" THEN Moves(p, "EXPECTING_KEY")
                ELSE IF cls = "key"
                THEN [Moves(p, "IN_KEY") EXCEPT !.current_key = <<lower(c)>>]
                ELSE Fails(p, "InvalidCharacter")
          [] p.state = "IN_KEY" ->
                IF cls = "eq" THEN Moves(p, "EXPECTING_VALUE")
                ELSE IF cls = "semi" THEN Finishes(p, <<"*">>)
                ELSE IF cls = "key"
                THEN [Moves(p, "IN_KEY") EXCEPT
                         !.current_key = p.current_key \o <<lower(c)>>]
                ELSE Fails(p, "InvalidCharacter")
          [] p.state = "EXPECTING_VALUE" ->
                IF cls = "quote" THEN Moves(p, "IN_QUOTED_VALUE")
                ELSE IF cls = "semi" THEN Fails(p, "EmptyTagComponent")
                ELSE IF valuechar
                THEN [Moves(p, "IN_UNQUOTED_VALUE") EXCEPT
                         !.current_value = <<lower(c)>>]
                ELSE Fails(p, "InvalidCharacter")
          [] p.state = "IN_UNQUOTED_VALUE" ->
                IF cls = "semi" THEN Finishes(p, p.current_value)
                ELSE IF valuechar
                THEN [Moves(p, "IN_UNQUOTED_VALUE") EXCEPT
                         !.current_value = p.current_value \o <<lower(c)>>]
                ELSE Fails(p, "InvalidCharacter")
          [] p.state = "IN_QUOTED_VALUE" ->
                IF cls = "quote" THEN Moves(p, "EXPECTING_SEMI_OR_END")
                ELSE IF cls = "backslash" THEN Moves(p, "IN_QUOTED_VALUE_ESCAPE")
                ELSE [Moves(p, "IN_QUOTED_VALUE") EXCEPT
                         !.current_value = p.current_value \o <<c>>]
          [] p.state = "IN_QUOTED_VALUE_ESCAPE" ->
                IF cls \in {"quote", "backslash"}
                THEN [Moves(p, "IN_QUOTED_VALUE") EXCEPT
                         !.current_value = p.current_value \o <<c>>]
                ELSE Fails(p, "InvalidEscapeSequence")
          [] p.state = "EXPECTING_SEMI_OR_END" ->
                IF cls = "semi" THEN Finishes(p, p.current_value)
                ELSE Fails(p, "InvalidCharacter")

\* two outcomes of an iteration are the same: the same exception, or the
\* same locals
SameStep(p, q) ==
    IF q.err # "none" THEN p.err = q.err ELSE p = q

\* the character the next iteration reads
NextChar == TagsPart(text)[parser.pos + 1]

\* C15: in each of the seven states and for each class of input character
\* an iteration of the parser's loop does what the transition table says:
\* the next state, the buffer extended (lowercased for keys and unquoted
\* values, verbatim for quoted values), the tag finished, or the error
\* raised; ";" in ExpectingKey is skipped.
C15_TransitionTable ==
    [][(pc = "loop" /\ parser.pos < Len(TagsPart(text))) =>
          /\ SameStep(parser', TableStep(parser, NextChar))
          /\ parser'.err # "none" => urn' = Raise(parser'.err)]_vars

\* an empty segment skipped after a tag has been collected
C15_Witness ==
    /\ pc = "loop"
    /\ parser.state = "EXPECTING_KEY"
    /\ parser.tags # EmptyTags
    /\ parser.pos > 1
    /\ TagsPart(text)[parser.pos] = ";"
    /\ TagsPart(text)[parser.pos - 1] = ";"


\* the outcome of the end of input as stated, by the state the parser is in
EndTable(p) ==
    LET done(f) == IF f.err # "none" THEN Raise(f.err)
                   ELSE Ok(TaggedUrn(PrefixText, f.tags))
    IN  CASE p.state \in {"IN_UNQUOTED_VALUE", "EXPECTING_SEMI_OR_END"} ->
                done(Finalized(p.tags, p.current_key, p.current_value))
          [] p.state = "EXPECTING_KEY" -> Ok(TaggedUrn(PrefixText, p.tags))
          [] p.state \in {"IN_QUOTED_VALUE", "IN_QUOTED_VALUE_ESCAPE"} ->
                Raise("UnterminatedQuote")
          [] p.state = "IN_KEY" -> done(Finalized(p.tags, p.current_key, <<"*">>))
          [] p.state = "EXPECTING_VALUE" -> Raise("EmptyTagComponent")

\* from_string has left its loop at the end of the input
EndedAtInput == pc = "constructed" /\ EntersLoop(text) /\ parser.err = "none"

\* C16: at the end of the input the outcome follows from the parser's state:
\* InUnquotedValue and ExpectingSemiOrEnd finish the pending tag,
\* ExpectingKey returns the tags collected, InQuotedValue and
\* InQuotedValueEscape fail UnterminatedQuote, InKey finishes the key as a
\* value-less tag "*", ExpectingValue fails EmptyTagComponent; and an
\* accepted text with one ";" appended parses to an equal URN.
C16_EndOfInput ==
    /\ EndedAtInput => urn = EndTable(parser)
    /\ (pc = "constructed" /\ urn.ok) => from_string(text \o <<";">>) = urn

\* a key at the end of the input becomes a value-less tag, after a tag
\* whose quoted value was closed by ";"
C16_Witness ==
    /\ EndedAtInput
    /\ parser.state = "IN_KEY"
    /\ urn.ok
    /\ \E k, j \in DOMAIN urn.urn.tags :
          /\ k = parser.current_key
          /\ urn.urn.tags[k] = <<"*">>
          /\ j # k
          /\ urn.urn.tags[j] = <<"A">>

\* a quoted value closed at the end of the input, no ";" after it
C16_WitnessQuoted ==
    /\ EndedAtInput
    /\ parser.state = "EXPECTING_SEMI_OR_END"
    /\ urn.ok
    /\ text[Len(text)] = "\""

\* the input ends inside an escape
C16_WitnessEscape ==
    /\ EndedAtInput
    /\ parser.state = "IN_QUOTED_VALUE_ESCAPE"
    /\ urn = Raise("UnterminatedQuote")


\* the states in which ";" or the end of the input finishes a tag
FinishStates == {"IN_KEY", "IN_UNQUOTED_VALUE", "EXPECTING_SEMI_OR_END"}

AtEnd == parser.pos >= Len(TagsPart(text))

\* the value of the tag about to be finished
PendingValue == IF parser.state = "IN_KEY" THEN <<"*">> ELSE parser.current_value

\* C17: whenever the parser finishes a tag, an empty key or value (a
\* quoted "" too) fails EmptyTagComponent; otherwise a key already
\* collected, keys being lowercased, fails DuplicateKey, for a value-less
\* repeat too; otherwise a key of digits only fails NumericKey, valued or
\* value-less; otherwise the tag is inserted. A failure returns no URN.
C17_Finalization ==
    [][(pc = "loop" /\ parser.state \in FinishStates /\ (AtEnd \/ NextChar = ";")) =>
          LET f == Finalized(parser.tags, parser.current_key, PendingValue)
          IN  IF f.err # "none"
              THEN pc' = "constructed" /\ urn' = Raise(f.err) /\ ~urn'.ok
              ELSE IF AtEnd
              THEN urn' = Ok(TaggedUrn(PrefixText, f.tags))
              ELSE parser'.tags = f.tags /\ urn' = NoResult]_vars

\* "A" after "a=x": a value-less repeat in another letter case
C17_Witness ==
    /\ pc = "constructed"
    /\ text = TextHead \o <<"a", "=", "x", ";", "A">>
    /\ parser.tags = SetTag(EmptyTags, <<"a">>, <<"x">>)
    /\ parser.current_key = <<"a">>
    /\ urn = Raise("DuplicateKey")

\* the quoted empty value
C17_WitnessEmptyQuoted ==
    /\ pc = "constructed"
    /\ text = TextHead \o <<"b", "=", "\"", "\"">>
    /\ parser.state = "EXPECTING_SEMI_OR_END"
    /\ urn = Raise("EmptyTagComponent")

\* a numeric key with a value
C17_WitnessNumeric ==
    /\ pc = "constructed"
    /\ text = TextHead \o <<"1", "=", "x">>
    /\ urn = Raise("NumericKey")

\* a value-less numeric key, after a tag that was accepted
C17_WitnessNumericSolo ==
    /\ pc = "constructed"
    /\ text = TextHead \o <<"a", "=", "x", ";", "1">>
    /\ urn = Raise("NumericKey")

\* a key mixing a letter and a digit
C17_WitnessMixed ==
    /\ pc = "constructed"
    /\ text = TextHead \o <<"a", "1">>
    /\ urn = Ok(TaggedUrn(<<"c">>, SetTag(EmptyTags, <<"a", "1">>, <<"*">>)))

-----------------------------------------------------------------------------
(* Properties of the parsed text: letter case.                              *)

NoUpper(s) == \A i \in 1..Len(s) : s[i] \notin UpperLetters

HasQuote(s) == \E i \in 1..Len(s) : s[i] = "\""

\* s with each letter replaced by its lower-case letter
Lowered(s) ==
    [i \in 1..Len(s) |-> IF s[i] = "A" THEN "a" ELSE IF s[i] = "C" THEN "c" ELSE s[i]]

\* the text between the quotes with its escapes taken away
RECURSIVE Unescaped(_)
Unescaped(w) ==
    IF w = <<>> THEN <<>>
    ELSE IF w[1] = "\\" /\ Len(w) >= 2 THEN <<w[2]>> \o Unescaped(SubSeq(w, 3, Len(w)))
    ELSE <<w[1]>> \o Unescaped(Tail(w))

\* an accepted text of one tag with a one-character key and an unquoted
\* value: prefix, ":", key, "=", value
SingleUnquoted ==
    /\ Len(text) >= 5
    /\ text[2] = ":"
    /\ text[4] = "="
    /\ \A i \in 5..Len(text) : text[i] \notin {";", "\""}

\* an accepted text of one tag with a one-character key and a quoted
\* value: prefix, ":", key, "=", quote, escaped value, quote
SingleQuoted ==
    /\ Len(text) >= 7
    /\ text[2] = ":"
    /\ text[4] = "="
    /\ text[5] = "\""
    /\ text[Len(text)] = "\""
    /\ Cardinality(DOMAIN urn.urn.tags) = 1

WrittenKey == Lowered(<<text[3]>>)

\* the same tag with the value w written in quotes; w holds no quote and
\* no backslash
InQuotes(w) == SubSeq(text, 1, 4) \o <<"\"">> \o w \o <<"\"">>

\* C18: in every URN returned by from_string the prefix and the keys are
\* lowercase, a value written unquoted is stored lowercased and a value
\* written in quotes is stored as written, escapes removed, case kept; so
\* an unquoted value and its lowercase spelling in quotes parse to equal
\* URNs and a quoted value with an upper-case letter does not equal its
\* unquoted spelling.
C18_CaseLaw ==
    (Parsed /\ urn.ok) =>
        /\ NoUpper(urn.urn.prefix)
        /\ \A k \in DOMAIN urn.urn.tags : NoUpper(k)
        /\ ~HasQuote(text) => \A k \in DOMAIN urn.urn.tags : NoUpper(urn.urn.tags[k])
        /\ SingleUnquoted =>
              LET w == SubSeq(text, 5, Len(text))
              IN  /\ DOMAIN urn.urn.tags = {WrittenKey}
                  /\ urn.urn.tags[WrittenKey] = Lowered(w)
                  /\ from_string(InQuotes(Lowered(w))) = urn
                  /\ ~NoUpper(w) =>
                        /\ from_string(InQuotes(w)).ok
                        /\ from_string(InQuotes(w)).urn.tags[WrittenKey] = w
                        /\ from_string(InQuotes(w)) # urn
        /\ SingleQuoted =>
              /\ DOMAIN urn.urn.tags = {WrittenKey}
              /\ urn.urn.tags[WrittenKey] = Unescaped(SubSeq(text, 6, Len(text) - 1))

\* key and unquoted value written in upper case
C18_Witness ==
    /\ Parsed
    /\ text = <<"C", ":", "A", "=", "A", "a">>
    /\ urn = Ok(TaggedUrn(<<"c">>, SetTag(EmptyTags, <<"a">>, <<"a", "a">>)))

\* a quoted value in upper case keeps its case
C18_WitnessQuoted ==
    /\ Parsed
    /\ text = <<"C", ":", "a", "=", "\"", "A", "a", "\"">>
    /\ urn = Ok(TaggedUrn(<<"c">>, SetTag(EmptyTags, <<"a">>, <<"A", "a">>)))

\* a quoted value with an escape and an upper-case letter
C18_WitnessEscaped ==
    /\ Parsed
    /\ urn.ok
    /\ SingleQuoted
    /\ \E i \in 6..(Len(text) - 2) : text[i] = "\\"
    /\ \E k \in DOMAIN urn.urn.tags : Len(urn.urn.tags[k]) < Len(text) - 6

-----------------------------------------------------------------------------
(* Properties of the canonical text.                                        *)

\* a value as the canonical text writes it in quotes
RECURSIVE QuotedInside(_)
QuotedInside(v) ==
    IF v = <<>> THEN <<>>
    ELSE IF v[1] = "\"" THEN <<"\\", "\"">> \o QuotedInside(Tail(v))
    ELSE IF v[1] = "\\" THEN <<"\\", "\\">> \o QuotedInside(Tail(v))
    ELSE <<v[1]>> \o QuotedInside(Tail(v))

MustBeQuoted(v) ==
    \E i \in 1..Len(v) : v[i] \in {";", "=", "\"", "\\", " "} \cup UpperLetters

\* one tag as the canonical text writes it
Rendered(k, v) ==
    CASE v = <<"*">> -> k
      [] v = <<"?">> -> k \o <<"=", "?">>
      [] v = <<"!">> -> k \o <<"=", "!">>
      [] OTHER -> IF MustBeQuoted(v)
                  THEN k \o <<"=", "\"">> \o QuotedInside(v) \o <<"\"">>
                  ELSE k \o <<"=">> \o v

\* the tags of u in the order given, ";" between two of them
RECURSIVE RenderedFrom(_, _, _)
RenderedFrom(u, order, i) ==
    IF i > Len(order) THEN <<>>
    ELSE Rendered(order[i], u.tags[order[i]])
         \o (IF i < Len(order) THEN <<";">> ELSE <<>>)
         \o RenderedFrom(u, order, i + 1)

Ascending(order) ==
    \A i, j \in 1..Len(order) : i < j => StrLess(order[i], order[j])

\* the parts of s between its ";"
RECURSIVE SplitSemi(_, _)
SplitSemi(s, cur) ==
    IF s = <<>> THEN <<cur>>
    ELSE IF s[1] = ";" THEN <<cur>> \o SplitSemi(Tail(s), <<>>)
    ELSE SplitSemi(Tail(s), Append(cur, s[1]))

ReversedSeq(q) == [i \in 1..Len(q) |-> q[Len(q) + 1 - i]]

\* texts that differ from the text parsed in a trailing ";", in an empty
\* segment, or in the order of the tags
Variants ==
    LET colon == Len(PrefixText) + 1
        head == SubSeq(text, 1, colon)
        body == SubSeq(text, colon + 1, Len(text))
    IN  {text \o <<";">>, head \o <<";">> \o body}
        \cup (IF HasQuote(text) THEN {}
              ELSE {head \o JoinSegments(ReversedSeq(SplitSemi(body, <<>>)))})

\* C19: the canonical text is the prefix, ":", and the tags in ascending
\* order of key with ";" between them and none at the end, a tag written
\* as the bare key for "*", key=? for "?", key=! for "!", the value in
\* quotes with each quote and backslash escaped when it holds one of
\* ; = " \ space or an upper-case letter, key=value otherwise; accepted
\* texts differing only in a trailing ";", an empty segment or the order
\* of the tags have the same canonical text.
C19_CanonicalText ==
    pc \in {"serialized", "reparsed"} =>
        /\ \E order \in Orders(DOMAIN urn.urn.tags) :
              /\ Ascending(order)
              /\ canon = urn.urn.prefix \o <<":">> \o RenderedFrom(urn.urn, order, 1)
        /\ \A v \in Variants :
              /\ from_string(v).ok
              /\ to_string(from_string(v).urn) = canon

\* three tags written in descending order of key: a quoted quote, a quoted
\* upper-case letter, a value-less tag
C19_Witness ==
    /\ pc = "serialized"
    /\ text = TextHead \o <<"c", "=", "\"", "\\", "\"", "\"", ";">>
                       \o <<"b", "=", "\"", "A", "\"", ";", "a">>
    /\ canon = <<"c", ":", "a", ";">> \o <<"b", "=", "\"", "A", "\"", ";">>
                  \o <<"c", "=", "\"", "\\", "\"", "\"">>

\* tags written in descending order in a text without quotes, with "?"
C19_WitnessOrder ==
    /\ pc = "serialized"
    /\ text = TextHead \o <<"b", "=", "?", ";", "a", "=", "x">>
    /\ canon = <<"c", ":", "a", "=", "x", ";", "b", "=", "?">>

-----------------------------------------------------------------------------
(* The keys of a URN however it was constructed.                            *)

\* C20: every URN obtained from from_string, from the builder or from
\* with_tag has only keys that are non-empty and not made of digits only.
C20_KeyInvariant ==
    (pc \in {"constructed", "serialized", "reparsed"} /\ urn.ok) =>
        \A k \in DOMAIN urn.urn.tags :
            k # <<>> /\ \E i \in 1..Len(k) : k[i] \notin Digits

-----------------------------------------------------------------------------
(* The buffers of the parser.                                               *)

\* what the state says about the key buffer and the value buffer
BuffersAgree(p) ==
    /\ p.state = "EXPECTING_KEY" => p.current_key = <<>> /\ p.current_value = <<>>
    /\ p.state = "IN_KEY" => p.current_key # <<>> /\ p.current_value = <<>>
    /\ p.state = "EXPECTING_VALUE" => p.current_key # <<>> /\ p.current_value = <<>>
    /\ p.state = "IN_UNQUOTED_VALUE" => p.current_key # <<>> /\ p.current_value # <<>>

\* C27: at the top of every iteration of the tag-body loop ExpectingKey
\* has both buffers empty, InKey and ExpectingValue have a key and no
\* value, InUnquotedValue has both; an iteration that does not raise
\* consumes exactly one character; so no EmptyTagComponent comes from an
\* empty key, and "=" at the start of a segment fails InvalidCharacter.
C27_BufferInvariant ==
    /\ [](pc = "loop" => BuffersAgree(parser))
    /\ [](pc = "loop" => parser.pos <= Len(TagsPart(text)))
    /\ [][(pc = "loop" /\ parser.pos < Len(TagsPart(text))) =>
             /\ parser'.err = "none" => parser'.pos = parser.pos + 1
             /\ parser'.err = "EmptyTagComponent" =>
                   parser.current_key # <<>> /\ PendingValue = <<>>
             /\ (parser.state = "EXPECTING_KEY" /\ NextChar = "=") =>
                   urn' = Raise("InvalidCharacter")]_vars
    /\ [][(pc = "loop" /\ parser.pos >= Len(TagsPart(text))
              /\ urn' = Raise("EmptyTagComponent")) =>
             /\ parser.current_key # <<>>
             /\ parser.state = "EXPECTING_VALUE" \/ PendingValue = <<>>]_vars

\* "=" where a key is expected, after a tag and an empty segment
C27_Witness ==
    /\ pc = "constructed"
    /\ parser.state = "EXPECTING_KEY"
    /\ parser.tags # EmptyTags
    /\ parser.pos >= 2
    /\ parser.pos < Len(TagsPart(text))
    /\ TagsPart(text)[parser.pos + 1] = "="
    /\ TagsPart(text)[parser.pos] = ";"
    /\ urn = Raise("InvalidCharacter")

\* the loop left after as many iterations as the body has characters,
\* the last one in InUnquotedValue
C27_WitnessEnd ==
    /\ pc = "loop"
    /\ parser.pos = Len(TagsPart(text))
    /\ parser.state = "IN_UNQUOTED_VALUE"
    /\ parser.tags # EmptyTags

-----------------------------------------------------------------------------
(* Conformance and compatibility.                                           *)

\* C28: for URNs a and b of equal prefix, a.conforms_to(b) true implies
\* a.is_compatible_with(b) true, and a.conforms_to(a) is true; hence a
\* candidate that find_best_match or find_all_matches returns for a
\* request is compatible with the request.
C28_ConformsImpliesCompatible ==
    (op = "conforms_to" /\ a.prefix = b.prefix) =>
        /\ out = Bool(TRUE) =>
              \A order \in Orders(all_keys) :
                  is_compatible_with(a, b, order) = Bool(TRUE)
        /\ \A order \in Orders(DOMAIN a.tags) : conforms_to(a, a, order) = Bool(TRUE)
        /\ (find_best_match(<<a>>, b) = Value(1)
                \/ find_all_matches(<<a>>, b) = Value(<<1>>)) =>
              is_compatible_with(a, b, KeyOrder(all_keys)) = Bool(TRUE)

\* a conforms to b with an exact value under "*" and a missing tag under "!"
C28_Witness ==
    /\ op = "conforms_to"
    /\ a.prefix = b.prefix
    /\ out = Bool(TRUE)
    /\ a # b
    /\ \E k \in all_keys : IsExact(GetTag(a.tags, k)) /\ GetTag(b.tags, k) = <<"*">>
    /\ \E k \in all_keys : GetTag(a.tags, k) = NoneVal /\ GetTag(b.tags, k) = <<"!">>
    /\ find_best_match(<<a>>, b) = Value(1)

-----------------------------------------------------------------------------
(* The two selections of UrnMatcher against each other.                     *)

\* the two results name the same candidate, or none
SameChoice(best, all) ==
    /\ best.kind = "value"
    /\ all.kind = "value"
    /\ (best.val = 0) <=> (all.val = <<>>)
    /\ all.val # <<>> => best.val = all.val[1]

\* C29: for candidates sharing the request's prefix, find_best_match is
\* None iff find_all_matches is empty, and otherwise is the candidate, at
\* the same input position, that find_all_matches returns first.
C29_BestIsFirstOfAll ==
    /\ (op = "find_best_match" /\ SamePrefix) =>
          SameChoice(out, find_all_matches(urns, a))
    /\ (op = "find_all_matches" /\ SamePrefix) =>
          SameChoice(find_best_match(urns, a), out)

\* the best match is the second candidate, ahead of an equally specific
\* third one and of a less specific first one
C29_Witness ==
    /\ op = "find_all_matches"
    /\ SamePrefix
    /\ out = Value(<<2, 3, 1>>)
    /\ specificity(urns[2]) = specificity(urns[3])
    /\ urns[2] # urns[3]
    /\ find_best_match(urns, a) = Value(2)

\* no candidate conforms
C29_WitnessNone ==
    /\ op = "find_best_match"
    /\ SamePrefix
    /\ Len(urns) = 3
    /\ out = Value(0)
    /\ find_all_matches(urns, a) = Value(<<>>)

-----------------------------------------------------------------------------
(* UrnMatcher on URNs of different prefixes.                                *)

\* the pair (i, j) is visited before the pair (m, n)
Earlier(i, j, m, n) == i < m \/ (i = m /\ j < n)

\* a compatible pair of one prefix is visited before any pair of two
\* prefixes
CompatibleBeforeCross ==
    \E i \in 1..Len(urns), j \in 1..Len(urns2) :
        /\ urns[i].prefix = urns2[j].prefix
        /\ Compatible(urns[i], urns2[j])
        /\ \A m \in 1..Len(urns), n \in 1..Len(urns2) :
              Earlier(m, n, i, j) => urns[m].prefix = urns2[n].prefix

\* find_best_match and find_all_matches raise PrefixMismatch exactly when
\* some candidate's prefix differs from the request's
SelectionsRaise ==
    op \in {"find_best_match", "find_all_matches"} =>
        ((out.kind = "PrefixMismatch") <=> ~SamePrefix)

\* C30 as stated: find_best_match and find_all_matches raise
\* PrefixMismatch whenever a candidate's prefix differs from the request's
\* and return a result only otherwise; are_compatible on URNs of mixed
\* prefixes returns true if a compatible same-prefix pair is visited
\* before any cross-prefix pair and raises PrefixMismatch otherwise.
C30_MixedPrefixes ==
    /\ SelectionsRaise
    /\ (op = "are_compatible" /\ ~OnePrefix) =>
          IF CompatibleBeforeCross THEN out = Bool(TRUE)
          ELSE out.kind = "PrefixMismatch"

\* C30 amended: as above, but are_compatible raises only when both
\* collections are non-empty; with an empty collection no pair is visited
\* and it returns false whatever the prefixes are.
C30_MixedPrefixesVisited ==
    /\ SelectionsRaise
    /\ (op = "are_compatible" /\ ~OnePrefix) =>
          IF urns = <<>> \/ urns2 = <<>> THEN out = Bool(FALSE)
          ELSE IF CompatibleBeforeCross THEN out = Bool(TRUE)
          ELSE out.kind = "PrefixMismatch"

\* true returned although a later pair has two prefixes
C30_Witness ==
    /\ op = "are_compatible"
    /\ ~OnePrefix
    /\ Len(urns) = 2
    /\ urns2 # <<>>
    /\ urns[2].prefix # urns2[1].prefix
    /\ out = Bool(TRUE)

\* PrefixMismatch raised by the last candidate, after a conforming one
C30_WitnessLast ==
    /\ op = "find_best_match"
    /\ Len(urns) = 3
    /\ urns[1].prefix = a.prefix
    /\ Conforms(urns[1], a)
    /\ urns[2].prefix = a.prefix
    /\ urns[3].prefix # a.prefix
    /\ out.kind = "PrefixMismatch"

\* mixed prefixes in one collection, the other one empty
C30_WitnessEmpty ==
    /\ op = "are_compatible"
    /\ ~OnePrefix
    /\ urns2 = <<>>
    /\ out = Bool(FALSE)

-----------------------------------------------------------------------------
(* The spellings of the markers.                                            *)

Markers == {"*", "?", "!"}

\* the text is a prefix of one character, ":", and a key of one character
BareKeyText == Len(text) = 3 /\ text[2] = ":" /\ text[3] # ";"

\* the text is a prefix of one character, ":", a key of one character and
\* a marker in quotes
QuotedMarkerText ==
    /\ Len(text) = 7
    /\ text[2] = ":"
    /\ SubSeq(text, 4, 5) = <<"=", "\"">>
    /\ text[6] \in Markers
    /\ text[7] = "\""

\* u treats the value at key k as the marker m and not as a text
ActsAsMarker(u, k, m) ==
    LET x == TaggedUrn(u.prefix, SetTag(EmptyTags, k, <<"x">>))
        none == TaggedUrn(u.prefix, EmptyTags)
    IN  /\ u.tags[k] = <<m>>
        /\ specificity(u) = (CASE m = "*" -> 2 [] m = "!" -> 1 [] m = "?" -> 0)
        /\ conforms_to(x, u, <<k>>) = Bool(m # "!")
        /\ conforms_to(none, u, <<k>>) = Bool(m # "*")
        /\ to_string(u) = u.prefix \o <<":">> \o k
                             \o (IF m = "*" THEN <<>> ELSE <<"=", m>>)

\* C24: "key", "key=*" and key="*" parse to equal URNs whose canonical
\* text is the bare key; "key=?" and key="?" parse to equal URNs, and so
\* do "key=!" and key="!". A marker written in quotes is the marker in
\* equality, matching, specificity and serialization.
C24_MarkerSpellings ==
    /\ (Parsed /\ urn.ok /\ BareKeyText) =>
          /\ from_string(text \o <<"=", "*">>) = urn
          /\ from_string(text \o <<"=", "\"", "*", "\"">>) = urn
          /\ to_string(urn.urn) = Lowered(text)
          /\ \A m \in {"?", "!"} :
                /\ from_string(text \o <<"=", m>>).ok
                /\ from_string(text \o <<"=", m>>)
                      = from_string(text \o <<"=", "\"", m, "\"">>)
    /\ (Parsed /\ urn.ok /\ QuotedMarkerText) =>
          /\ urn = from_string(SubSeq(text, 1, 4) \o <<text[6]>>)
          /\ text[6] = "*" => urn = from_string(SubSeq(text, 1, 3))
          /\ ActsAsMarker(urn.urn, Lowered(<<text[3]>>), text[6])
    /\ (pc \in {"serialized", "reparsed"} /\ QuotedMarkerText) =>
          canon = Lowered(SubSeq(text, 1, 3))
                     \o (IF text[6] = "*" THEN <<>> ELSE <<"=", text[6]>>)

\* "*" written in quotes comes out as the bare key
C24_Witness ==
    /\ pc = "serialized"
    /\ text = TextHead \o <<"a", "=", "\"", "*", "\"">>
    /\ urn.urn.tags = SetTag(EmptyTags, <<"a">>, <<"*">>)
    /\ canon = <<"c", ":", "a">>

\* an upper-case bare key
C24_WitnessBare ==
    /\ Parsed
    /\ urn.ok
    /\ text = TextHead \o <<"A">>
    /\ urn.urn.tags = SetTag(EmptyTags, <<"a">>, <<"*">>)

\* "!" written in quotes
C24_WitnessForbidden ==
    /\ pc = "serialized"
    /\ text = TextHead \o <<"a", "=", "\"", "!", "\"">>
    /\ canon = <<"c", ":", "a", "=", "!">>

-----------------------------------------------------------------------------
(* TaggedUrn objects: the dict of tags with its insertion order, and the    *)
(* methods as they read and write the objects of the heap.                  *)

\* a dict is the sequence of its (key, value) items in insertion order
DictKeys(d) == {d[i][1] : i \in 1..Len(d)}

DictIndex(d, k) == CHOOSE i \in 1..Len(d) : d[i][1] = k

\* d.get(k)
DictGet(d, k) == IF k \in DictKeys(d) THEN d[DictIndex(d, k)][2] ELSE NoneVal

\* d[k] = v : a key already there keeps its place
DictSet(d, k, v) ==
    IF k \in DictKeys(d) THEN [d EXCEPT ![DictIndex(d, k)] = <<k, v>>]
    ELSE Append(d, <<k, v>>)

\* d.pop(k, None)
DictPop(d, k) ==
    LET keep(item) == item[1] # k
    IN  SelectSeq(d, keep)

\* d.update(e)
RECURSIVE DictUpdate(_, _)
DictUpdate(d, e) ==
    IF e = <<>> THEN d
    ELSE DictUpdate(DictSet(d, e[1][1], e[1][2]), Tail(e))

\* {k.lower(): v for k, v in tags.items()}
RECURSIVE LowerKeysInto(_, _)
LowerKeysInto(d, items) ==
    IF items = <<>> THEN d
    ELSE LowerKeysInto(DictSet(d, LowerStr(items[1][1]), items[1][2]), Tail(items))

\* d == e for two dicts: the same items, in any order
DictEq(d, e) == {d[i] : i \in 1..Len(d)} = {e[i] : i \in 1..Len(e)}

\* tuple(d.items()): the items in insertion order
ItemsInOrder(d) == d

\* tuple(sorted(d.items()))
SortedItems(d) ==
    LET ks == SortedKeys(DictKeys(d))
    IN  [i \in 1..Len(ks) |-> <<ks[i], DictGet(d, ks[i])>>]

\* the tags of a dict as the mapping the matching engine and the
\* serializer read
AsTags(d) == [k \in DictKeys(d) |-> DictGet(d, k)]

\* TaggedUrn.__init__(prefix, tags): the new object, with a dict of its own
NewUrn(prefix, tags) ==
    [prefix |-> LowerStr(prefix), tags |-> LowerKeysInto(<<>>, tags)]

\* the object as prefix and mapping
ValueOf(obj) == TaggedUrn(obj.prefix, AsTags(obj.tags))

\* an exception other than PrefixMismatchError
Raised(e) == [kind |-> e, val |-> FALSE, expected |-> <<>>, actual |-> <<>>]

\* what a call leaves behind: the heap and the outcome
Effect(h, outcome) == [heap |-> h, out |-> outcome]

\* a new object put on the heap and returned
Allocate(h, obj) == Effect(Append(h, obj), Value(Len(h) + 1))

\* with_tag storing any value, the empty one included
with_tag_object_any_value(h, self, key, value) ==
    Allocate(h, NewUrn(h[self].prefix, DictSet(h[self].tags, LowerStr(key), value)))

\* self.with_tag(key, value)
with_tag_object(h, self, key, value) ==
    IF value = <<>> THEN Effect(h, Raised("EmptyTagComponent"))
    ELSE Allocate(h, NewUrn(h[self].prefix,
                            DictSet(h[self].tags, LowerStr(key), value)))

\* self._with_tag_unchecked(key, value)
_with_tag_unchecked(h, self, key, value) ==
    Allocate(h, NewUrn(h[self].prefix, DictSet(h[self].tags, LowerStr(key), value)))

\* without_tag popping the key from the receiver's own dict
without_tag_in_place(h, self, key) ==
    Effect([h EXCEPT ![self].tags = DictPop(h[self].tags, LowerStr(key))],
           Value(self))

\* self.without_tag(key)
without_tag(h, self, key) ==
    Allocate(h, NewUrn(h[self].prefix, DictPop(h[self].tags, LowerStr(key))))

\* self.with_wildcard_tag(key)
with_wildcard_tag(h, self, key) ==
    IF key \in DictKeys(h[self].tags)
    THEN _with_tag_unchecked(h, self, key, <<"*">>)
    ELSE Effect(h, Value(self))

\* the loop of subset over keys
RECURSIVE SubsetLoop(_, _, _)
SubsetLoop(tags, keys, new_tags) ==
    IF keys = <<>> THEN new_tags
    ELSE SubsetLoop(tags, Tail(keys),
                    IF keys[1] \in DictKeys(tags)
                    THEN DictSet(new_tags, keys[1], DictGet(tags, keys[1]))
                    ELSE new_tags)

\* self.subset(keys)
subset(h, self, keys) ==
    Allocate(h, NewUrn(h[self].prefix, SubsetLoop(h[self].tags, keys, <<>>)))

\* merge in which the receiver's entries win
merge_self_wins(h, self, other) ==
    IF h[self].prefix # h[other].prefix
    THEN Effect(h, PrefixMismatchError(h[self].prefix, h[other].prefix))
    ELSE Allocate(h, NewUrn(h[self].prefix,
                            DictUpdate(h[other].tags, h[self].tags)))

\* self.merge(other)
merge(h, self, other) ==
    IF h[self].prefix # h[other].prefix
    THEN Effect(h, PrefixMismatchError(h[self].prefix, h[other].prefix))
    ELSE Allocate(h, NewUrn(h[self].prefix,
                            DictUpdate(h[self].tags, h[other].tags)))

\* self.get_tag(key)
get_tag(h, self, key) == Effect(h, Value(DictGet(h[self].tags, LowerStr(key))))

\* self.has_tag(key, value)
has_tag(h, self, key, value) ==
    Effect(h, Bool(DictGet(h[self].tags, LowerStr(key)) = value))

\* self == other
__eq__(h, self, other) ==
    Effect(h, Bool(h[self].prefix = h[other].prefix
                      /\ DictEq(h[self].tags, h[other].tags)))

\* the hash taken of the items as they were inserted
__hash__unsorted(h, self) ==
    Effect(h, Value(<<h[self].prefix, ItemsInOrder(h[self].tags)>>))

\* hash(self): the tuple whose hash is returned
__hash__(h, self) ==
    Effect(h, Value(<<h[self].prefix, SortedItems(h[self].tags)>>))

-----------------------------------------------------------------------------
(* The derivation session: methods called on the objects of the heap.       *)

\* most calls made in a session
MaxCalls == 2

\* the dicts the first objects are constructed from
InitDicts ==
    { <<>>,
      << <<<<"a">>, <<"x">>>> >>,
      << <<<<"a">>, <<"!">>>> >>,
      << <<<<"b">>, <<"A">>>> >>,
      << <<<<"a">>, <<"x">>>>, <<<<"b">>, <<"y">>>> >>,
      << <<<<"b">>, <<"y">>>>, <<<<"a">>, <<"x">>>> >>,
      << <<<<"a">>, <<"?">>>>, <<<<"b">>, <<"*">>>> >> }

\* two objects to start with: of two prefixes, or of one prefix with the
\* same items inserted in another order, or differing in one value
InitPairs ==
    LET ab == << <<<<"a">>, <<"x">>>>, <<<<"b">>, <<"y">>>> >>
        ba == << <<<<"b">>, <<"y">>>>, <<<<"a">>, <<"x">>>> >>
        a_ == << <<<<"a">>, <<"A">>>> >>
    IN  { <<NewUrn(<<"C">>, ab), NewUrn(<<"b">>, ab)>>,
          <<NewUrn(<<"C">>, ab), NewUrn(<<"c">>, ba)>>,
          <<NewUrn(<<"C">>, ab), NewUrn(<<"c">>, a_)>> }

DeriveKeys == {<<"a">>, <<"A">>, <<"b">>}
DeriveValues == {<<>>, <<"X">>, <<"A">>}
DeriveKeyLists == {<<>>, <<<<"a">>>>, <<<<"A">>>>, <<<<"b">>, <<"a">>>>}

Refs == 1..Len(heap)

InitDerive ==
    /\ \/ \E d \in InitDicts : heap = <<NewUrn(<<"C">>, d)>>
       \/ heap \in InitPairs
    /\ call = NoCall
    /\ out = NoOutcome
    /\ nops = 0
    /\ pc = "derive"
    /\ a = NoUrn
    /\ b = NoUrn
    /\ op = "none"
    /\ text = <<>>
    /\ urn = NoResult
    /\ canon = <<>>
    /\ reparsed = NoResult
    /\ builder \in {TaggedUrnBuilder(p) : p \in ArgPrefixes}
    /\ berr = "none"
    /\ urns = <<>>
    /\ urns2 = <<>>
    /\ parser = ParseStart

\* the call made and what it left behind
Does(c, effect) ==
    /\ nops < MaxCalls
    /\ nops' = nops + 1
    /\ call' = c
    /\ heap' = effect.heap
    /\ out' = effect.out

CallWithTag ==
    \E self \in Refs, key \in DeriveKeys, value \in DeriveValues :
        Does(Call("with_tag", self, 0, key, value, <<>>),
             with_tag_object(heap, self, key, value))

CallWithoutTag ==
    \E self \in Refs, key \in DeriveKeys :
        Does(Call("without_tag", self, 0, key, <<>>, <<>>),
             without_tag(heap, self, key))

CallWithWildcardTag ==
    \E self \in Refs, key \in DeriveKeys :
        Does(Call("with_wildcard_tag", self, 0, key, <<>>, <<>>),
             with_wildcard_tag(heap, self, key))

CallSubset ==
    \E self \in Refs, keys \in DeriveKeyLists :
        Does(Call("subset", self, 0, <<>>, <<>>, keys), subset(heap, self, keys))

CallMerge ==
    \E self \in Refs, other \in Refs :
        Does(Call("merge", self, other, <<>>, <<>>, <<>>),
             merge(heap, self, other))

CallGetTag ==
    \E self \in Refs, key \in DeriveKeys :
        Does(Call("get_tag", self, 0, key, <<>>, <<>>), get_tag(heap, self, key))

CallHasTag ==
    \E self \in Refs, key \in DeriveKeys, value \in DeriveValues :
        Does(Call("has_tag", self, 0, key, value, <<>>),
             has_tag(heap, self, key, value))

CallEq ==
    \E self \in Refs, other \in Refs :
        Does(Call("__eq__", self, other, <<>>, <<>>, <<>>),
             __eq__(heap, self, other))

CallHash ==
    \E self \in Refs :
        Does(Call("__hash__", self, 0, <<>>, <<>>, <<>>), __hash__(heap, self))

\* conforms_to, accepts, is_compatible_with: they read the two mappings
CallMatch ==
    \E self \in Refs, other \in Refs :
        LET u == ValueOf(heap[self])
            v == ValueOf(heap[other])
        IN  \/ Does(Call("conforms_to", self, other, <<>>, <<>>, <<>>),
                    Effect(heap, conforms_to(u, v, VisitOrder(u, v))))
            \/ Does(Call("accepts", self, other, <<>>, <<>>, <<>>),
                    Effect(heap, accepts(u, v, VisitOrder(u, v))))
            \/ Does(Call("is_compatible_with", self, other, <<>>, <<>>, <<>>),
                    Effect(heap, is_compatible_with(u, v, VisitOrder(u, v))))

\* specificity and to_string: they read the mapping
CallRead ==
    \E self \in Refs :
        \/ Does(Call("specificity", self, 0, <<>>, <<>>, <<>>),
                Effect(heap, Value(specificity(ValueOf(heap[self])))))
        \/ Does(Call("to_string", self, 0, <<>>, <<>>, <<>>),
                Effect(heap, Value(to_string(ValueOf(heap[self])))))

\* the texts given to from_string in a session
DeriveTexts ==
    { TextHead \o <<"a", "=", "A">>,
      TextHead \o <<"a", "=">>,
      TextHead \o <<"a", "=", ";">>,
      TextHead \o <<"a", "=", "\"", "\"">>,
      TextHead \o <<"a", "=", "\"", " ", "\"">>,
      TextHead \o <<"a">> }

\* the object constructed from a prefix and a mapping, keys in ascending order
FromValue(u) ==
    LET keys == SortedKeys(DOMAIN u.tags)
    IN  NewUrn(u.prefix, [i \in 1..Len(keys) |-> <<keys[i], u.tags[keys[i]]>>])

\* the returned URN put on the heap, or the exception raised
Returned(h, r) ==
    IF r.ok THEN Allocate(h, FromValue(r.urn)) ELSE Effect(h, Raised(r.err))

\* TaggedUrn.from_string(text)
CallFromString ==
    \E t \in DeriveTexts :
        /\ Does(Call("from_string", 0, 0, <<>>, <<>>, <<>>),
                Returned(heap, from_string(t)))
        /\ text' = t
        /\ builder' = builder

\* builder.tag(key, value): the builder is changed in place and returned
CallBuilderTag ==
    \E key \in DeriveKeys, value \in DeriveValues :
        LET r == builder_tag(builder, key, value)
        IN  /\ Does(Call("tag", 0, 0, key, value, <<>>),
                    Effect(heap, IF r.err = "none" THEN Value(0)
                                 ELSE Raised(r.err)))
            /\ builder' = r.builder
            /\ text' = text

\* builder.solo_tag(key)
CallBuilderSoloTag ==
    \E key \in DeriveKeys :
        /\ Does(Call("solo_tag", 0, 0, key, <<>>, <<>>), Effect(heap, Value(0)))
        /\ builder' = builder_solo_tag(builder, key)
        /\ text' = text

\* builder.build()
CallBuilderBuild ==
    /\ Does(Call("build", 0, 0, <<>>, <<>>, <<>>),
            Returned(heap, builder_build(builder)))
    /\ builder' = builder
    /\ text' = text

deriveRest == <<pc, urn, canon, reparsed, berr, a, b, op, urns, urns2, parser>>

deriveFrame == <<text, builder, deriveRest>>

NextDerive ==
    \/ CallWithTag /\ UNCHANGED deriveFrame
    \/ CallWithoutTag /\ UNCHANGED deriveFrame
    \/ CallWithWildcardTag /\ UNCHANGED deriveFrame
    \/ CallSubset /\ UNCHANGED deriveFrame
    \/ CallMerge /\ UNCHANGED deriveFrame
    \/ CallGetTag /\ UNCHANGED deriveFrame
    \/ CallHasTag /\ UNCHANGED deriveFrame
    \/ CallEq /\ UNCHANGED deriveFrame
    \/ CallHash /\ UNCHANGED deriveFrame
    \/ CallMatch /\ UNCHANGED deriveFrame
    \/ CallRead /\ UNCHANGED deriveFrame
    \/ CallFromString /\ UNCHANGED deriveRest
    \/ CallBuilderTag /\ UNCHANGED deriveRest
    \/ CallBuilderSoloTag /\ UNCHANGED deriveRest
    \/ CallBuilderBuild /\ UNCHANGED deriveRest

SpecDerive == InitDerive /\ [][NextDerive]_vars

-----------------------------------------------------------------------------
(* Immutability of the objects.                                             *)

\* every object of the heap is still there, with the prefix and tags it had
ObjectsKept == \A i \in Refs : i <= Len(heap') /\ heap'[i] = heap[i]

\* a call returns the reference of an object of the heap, or no reference
ReturnsObject ==
    call.name \in {"with_tag", "without_tag", "with_wildcard_tag", "subset", "merge"}
        /\ out.kind = "value"

\* C21: no call of with_tag, without_tag, merge, subset, with_wildcard_tag,
\* get_tag, has_tag, conforms_to, accepts, is_compatible_with, specificity or
\* to_string changes the prefix or the tags of any object that exists when it
\* is made (receiver, argument, or any URN obtained earlier): the heap only
\* grows, and what is derived from a result is a further object.
C21_Immutable == [][ObjectsKept]_vars

\* a URN derived from a derived URN differs from it, and the session started
\* from one object, which is as it was constructed
C21_Witness ==
    /\ Len(heap) = 3
    /\ heap[1] = NewUrn(<<"C">>, <<>>)
    /\ call.self = 2
    /\ ReturnsObject
    /\ out.val = 3
    /\ heap[3] # heap[2]
    /\ heap[2] # heap[1]

\* a query made on a derived URN
C21_WitnessQuery ==
    /\ Len(heap) = 2
    /\ heap[1].tags = <<>>
    /\ call.name \in {"get_tag", "has_tag", "conforms_to", "accepts",
                      "is_compatible_with", "specificity", "to_string"}
    /\ call.self = 2

-----------------------------------------------------------------------------
(* merge.                                                                   *)

\* the two URNs hold the same value at every key both have
AgreeOnShared(u, v) ==
    \A k \in (DOMAIN u.tags) \cap (DOMAIN v.tags) : u.tags[k] = v.tags[k]

\* the URN a merge returned, as prefix and mapping
Merged == ValueOf(heap[out.val])

\* what other.merge(self) returns for the merge last called
MergedBack ==
    LET back == merge(heap, call.other, call.self)
    IN  ValueOf(back.heap[back.out.val])

\* C23: a.merge(b) raises PrefixMismatch(expected a's prefix, actual b's) when
\* the prefixes differ; otherwise the result has a's prefix, the union of the
\* two key sets, and at each key b's value if b has the key, else a's value;
\* a.merge(a) == a, and a.merge(b) == b.merge(a) iff a and b agree on every
\* shared key.
C23_Merge ==
    call.name = "merge" =>
        LET u == ValueOf(heap[call.self])
            v == ValueOf(heap[call.other])
        IN  IF u.prefix # v.prefix
            THEN out = [kind |-> "PrefixMismatch", val |-> FALSE,
                        expected |-> u.prefix, actual |-> v.prefix]
            ELSE /\ out.kind = "value"
                 /\ out.val \in Refs
                 /\ Merged.prefix = u.prefix
                 /\ DOMAIN Merged.tags = (DOMAIN u.tags) \cup (DOMAIN v.tags)
                 /\ \A k \in DOMAIN Merged.tags :
                        Merged.tags[k] = IF k \in DOMAIN v.tags THEN v.tags[k]
                                         ELSE u.tags[k]
                 /\ (call.self = call.other => Merged = u)
                 /\ (Merged = MergedBack <=> AgreeOnShared(u, v))

\* a merge in which the argument's value replaced the receiver's, so that
\* the merge the other way round gives another URN
C23_Witness ==
    /\ call.name = "merge"
    /\ out.kind = "value"
    /\ \E k \in DOMAIN ValueOf(heap[call.self]).tags :
          /\ k \in DOMAIN ValueOf(heap[call.other]).tags
          /\ Merged.tags[k] # ValueOf(heap[call.self]).tags[k]
    /\ Merged # MergedBack
    /\ DOMAIN Merged.tags # DOMAIN ValueOf(heap[call.other]).tags

\* a merge of two URNs of different prefixes
C23_WitnessPrefix ==
    /\ call.name = "merge"
    /\ out.kind = "PrefixMismatch"
    /\ out.expected = <<"c">>
    /\ out.actual = <<"b">>

\* a merge of two different URNs that commutes, and a merge with itself
C23_WitnessCommutes ==
    /\ call.name = "merge"
    /\ out.kind = "value"
    /\ heap[call.self] # heap[call.other]
    /\ DOMAIN ValueOf(heap[call.self]).tags # DOMAIN ValueOf(heap[call.other]).tags
    /\ Merged = MergedBack

C23_WitnessSelf ==
    /\ call.name = "merge"
    /\ out.kind = "value"
    /\ call.self = call.other
    /\ heap[call.self].tags # <<>>

-----------------------------------------------------------------------------
(* Equality and hashing.                                                    *)

\* the hash tuple of an object of the heap
HashOf(i) == __hash__(heap, i).out.val

\* the pairs of a hash tuple are in ascending order of their keys
KeySorted(items) ==
    \A i \in 1..Len(items) : \A j \in 1..Len(items) :
        i < j => StrLess(items[i][1], items[j][1])

\* C25: u == v holds iff the prefixes are equal and the key-to-value mappings
\* are equal, values compared as written, whatever the order the tags were
\* inserted in; equal URNs have equal hashes; the hashed tuple is the prefix
\* and the pairs of the mapping sorted by key, so that it is the same for any
\* two objects of one prefix and one mapping.
C25_EqualityAndHash ==
    /\ call.name = "__eq__" =>
           /\ out.kind = "bool"
           /\ out.val = (ValueOf(heap[call.self]) = ValueOf(heap[call.other]))
           /\ out.val => HashOf(call.self) = HashOf(call.other)
    /\ call.name = "__hash__" =>
           /\ out.kind = "value"
           /\ out.val[1] = heap[call.self].prefix
           /\ KeySorted(out.val[2])
           /\ {out.val[2][i] : i \in 1..Len(out.val[2])}
                  = {<<k, ValueOf(heap[call.self]).tags[k]>> :
                         k \in DOMAIN ValueOf(heap[call.self]).tags}
           /\ Len(out.val[2]) = Cardinality(DOMAIN ValueOf(heap[call.self]).tags)
           /\ \A i \in Refs :
                  ValueOf(heap[i]) = ValueOf(heap[call.self]) => HashOf(i) = out.val

\* two objects whose tags were inserted in different orders compared equal
C25_Witness ==
    /\ call.name = "__eq__"
    /\ out = Bool(TRUE)
    /\ heap[call.self].tags # heap[call.other].tags
    /\ Len(heap[call.self].tags) = 2

\* two objects compared unequal that differ in the case of one value only
C25_WitnessCase ==
    /\ call.name = "__eq__"
    /\ out = Bool(FALSE)
    /\ heap[call.self].prefix = heap[call.other].prefix
    /\ \E i \in 1..Len(heap[call.self].tags) :
           /\ heap[call.self].tags[i][2] = <<"x">>
           /\ DictGet(heap[call.other].tags, heap[call.self].tags[i][1]) = <<"X">>

\* two objects compared unequal that differ in the prefix only
C25_WitnessPrefix ==
    /\ call.name = "__eq__"
    /\ out = Bool(FALSE)
    /\ heap[call.self].prefix # heap[call.other].prefix
    /\ heap[call.self].tags = heap[call.other].tags

\* the hash taken of an object whose tags were not inserted in key order,
\* another object of the heap having the same value
C25_WitnessHash ==
    /\ call.name = "__hash__"
    /\ out.kind = "value"
    /\ ItemsInOrder(heap[call.self].tags) # out.val[2]
    /\ \E i \in Refs : i # call.self /\ ValueOf(heap[i]) = ValueOf(heap[call.self])

-----------------------------------------------------------------------------
(* Key arguments.                                                           *)

\* get_tag(key) on the object returns a value
Present(i, key) == get_tag(heap, i, key).out.val # NoneVal

\* the URN a deriving call returned, as prefix and mapping
Derived == ValueOf(heap[out.val])

\* C26: get_tag(K) is present iff has_tag, without_tag, with_wildcard_tag and
\* subset treat K as present: with K present with_wildcard_tag(K) returns a
\* URN with '*' at lower(K), subset keeps the tag of every listed key that is
\* present, without_tag(K) removes it and has_tag(K, v) compares with its
\* value; with K absent with_wildcard_tag(K) and without_tag(K) return a URN
\* equal to the receiver and has_tag(K, v) is false.
C26_KeysResolvedAlike ==
    LET u == ValueOf(heap[call.self])
        K == call.key
    IN  /\ call.name = "with_wildcard_tag" =>
               IF Present(call.self, K)
               THEN /\ LowerStr(K) \in DOMAIN Derived.tags
                    /\ Derived.tags[LowerStr(K)] = <<"*">>
               ELSE Derived = u
        /\ call.name = "without_tag" =>
               IF Present(call.self, K)
               THEN LowerStr(K) \notin DOMAIN Derived.tags
               ELSE Derived = u
        /\ call.name = "has_tag" =>
               out.val = (Present(call.self, K)
                             /\ u.tags[LowerStr(K)] = call.value)
        /\ call.name = "subset" =>
               \A i \in 1..Len(call.keys) :
                   Present(call.self, call.keys[i]) =>
                       /\ LowerStr(call.keys[i]) \in DOMAIN Derived.tags
                       /\ Derived.tags[LowerStr(call.keys[i])]
                              = u.tags[LowerStr(call.keys[i])]

\* the same with the key arguments written in lower case only
C26_LowerCaseKeys ==
    (call.key = LowerStr(call.key)
        /\ \A i \in 1..Len(call.keys) : call.keys[i] = LowerStr(call.keys[i]))
    => C26_KeysResolvedAlike

\* with_wildcard_tag or subset called with a key in upper case whose lower
\* case is a key of the receiver
C26_Witness ==
    \/ /\ call.name = "with_wildcard_tag"
       /\ call.key = <<"A">>
       /\ Present(call.self, call.key)
       /\ out.val = call.self
    \/ /\ call.name = "subset"
       /\ call.keys = <<<<"A">>>>
       /\ Present(call.self, <<"A">>)
       /\ Derived.tags = EmptyTags

-----------------------------------------------------------------------------
(* Empty values.                                                            *)

\* no object of the heap and no builder holds an empty value
NoEmptyValue ==
    /\ \A i \in Refs : \A j \in 1..Len(heap[i].tags) : heap[i].tags[j][2] # <<>>
    /\ \A k \in DOMAIN builder.tags : builder.tags[k] # <<>>

\* the same of the URNs of the construction session, parsed, built or
\* derived with with_tag
NoEmptyValueConstructed ==
    /\ urn.ok => \A k \in DOMAIN urn.urn.tags : urn.urn.tags[k] # <<>>
    /\ reparsed.ok => \A k \in DOMAIN reparsed.urn.tags : reparsed.urn.tags[k] # <<>>
    /\ \A k \in DOMAIN builder.tags : builder.tags[k] # <<>>

\* what with_tag and tag return, from the call and the state it left
StoredOrRaised ==
    /\ (call.name \in {"with_tag", "tag"} /\ call.value = <<>>)
           => out = Raised("EmptyTagComponent")
    /\ (call.name = "with_tag" /\ call.value # <<>>) =>
           LET u == ValueOf(heap[call.self])
               k == LowerStr(call.key)
           IN  /\ out.kind = "value"
               /\ get_tag(heap, out.val, call.key).out.val = call.value
               /\ Derived.prefix = u.prefix
               /\ DOMAIN Derived.tags = DOMAIN u.tags \cup {k}
               /\ \A j \in DOMAIN u.tags \ {k} : Derived.tags[j] = u.tags[j]

\* a call with an empty value leaves the objects and the builder as they were
RaisedLeavesUnchanged ==
    (call'.name \in {"with_tag", "tag"} /\ call'.value = <<>>)
        => heap' = heap /\ builder' = builder

\* C22: with_tag(key, "") and TaggedUrnBuilder.tag(key, "") raise
\* EmptyTagComponent and leave the receiver, respectively the builder's tags,
\* unchanged; with_tag with a non-empty value returns a URN in which
\* get_tag(key) is that value as written and every other tag is as in the
\* receiver; no URN returned by from_string, with_tag or build, and no
\* builder, holds an empty value.
C22_EmptyValuesRejected ==
    [](NoEmptyValue /\ StoredOrRaised) /\ [][RaisedLeavesUnchanged]_vars

\* with_tag called with an empty value on a URN that has tags
C22_Witness ==
    /\ call.name = "with_tag"
    /\ call.value = <<>>
    /\ out = Raised("EmptyTagComponent")
    /\ heap[call.self].tags # <<>>

\* tag called with an empty value on a builder that has a tag
C22_WitnessBuilder ==
    /\ call.name = "tag"
    /\ call.value = <<>>
    /\ out = Raised("EmptyTagComponent")
    /\ builder.tags # EmptyTags

\* with_tag storing a value in upper case under a key given in upper case,
\* beside another tag
C22_WitnessStored ==
    /\ call.name = "with_tag"
    /\ call.key = <<"A">>
    /\ call.value = <<"X">>
    /\ out.kind = "value"
    /\ Cardinality(DOMAIN Derived.tags) = 2

\* from_string refusing a text whose value is empty, bare or quoted
C22_WitnessParsed ==
    /\ call.name = "from_string"
    /\ out = Raised("EmptyTagComponent")
    /\ text = TextHead \o <<"a", "=", "\"", "\"">>

\* a URN built by the builder
C22_WitnessBuilt ==
    /\ call.name = "build"
    /\ out.kind = "value"
    /\ heap[out.val].tags # <<>>

====
